---------------------------- MODULE Spec2Model ----------------------------
(***************************************************************************)
(* A model of the array layer of cfdm:                                     *)
(*   - Array.get_subspace            (src/cfdm/data/abstract/array.py)     *)
(*   - CompressedArray.__getitem__   (src/cfdm/data/filearray.py)          *)
(*   - NetCDFFileArray open/close/__getitem__ and the file-handle cache    *)
(*                                    (src/cfdm/data/filearray.py)         *)
(*                                                                         *)
(* numpy arrays are modelled as views on buffers of a heap: a buffer is a  *)
(* sequence of cells [v, m] (value and mask bit), an array is              *)
(* [shape, buf, offs, isMA] where offs lists, in row-major order of the    *)
(* array, the positions of its elements in buffer buf.  Two arrays share   *)
(* storage exactly when they name the same buffer.                         *)
(***************************************************************************)
EXTENDS Integers, Sequences, FiniteSets, TLC

VARIABLES
    heap,     \* Seq of buffers; a buffer is a Seq of cells [v, m]
    src,      \* the array handed to get_subspace
    orig,     \* the cells of src at construction, in row-major order
    idx,      \* the indices of the last get_subspace call
    cpy,      \* the copy flag of the last get_subspace call
    out,      \* the result of the last get_subspace call
    pc,       \* "start" | "extracted" | "mutated"
    ca,       \* a CompressedArray: its attributes array, compression, shape, ...
    layout,   \* the ragged/gathered structure the compression was built from
    ridx,     \* the indices of the last CompressedArray.__getitem__ call
    rd,       \* the outcome of the last CompressedArray.__getitem__ call
    nreads,   \* the number of __getitem__ calls made
    nfailed,  \* the number of them that raised
    written,  \* the caller has written over the array the last read returned,
              \* or over the one the read before it returned
    fobj,     \* a NumpyArray or a NetCDFFileArray: its attributes
    fidx,     \* the indices of the last __getitem__ call on fobj
    fout,     \* the outcome of the last __getitem__ call on fobj
    freads,   \* the number of __getitem__ calls made on fobj
    arrays,   \* Seq of the NetCDFFileArray and CompressedArray objects made
    cache,    \* the file-handle cache: file name -> handle, 0 when absent
    handles,  \* handle -> [st: "free" | "open" | "closed", file, mode, by]
    lock,     \* the lock of a file name: the worker holding it, 0 when free
    calls,    \* the number of calls of open, close and __getitem__ begun
    wk,       \* worker -> [pc, op, obj, arr, nc, res]; res: how its last call ended
    store,    \* Seq of the dicts and lists made, each [kind, items]
    objs,     \* Seq of the Container and FileArray objects made: [class, dict]
    hist,     \* object -> component -> the value last set, <<>> when deleted since
    lastcall, \* the last call made on a Container or FileArray and its outcome
    nops,     \* the number of calls made on Containers and FileArrays
    dom,      \* a Constructs object and its copy
    cmp       \* the last equals call: its operands and its result

varsA == <<src, orig, idx, cpy, out, pc>>

varsB == <<ca, layout, ridx, rd, nreads, nfailed, written>>

varsC == <<arrays, cache, handles, lock, calls, wk>>

varsD == <<fobj, fidx, fout, freads>>

varsE == <<store, objs, hist, lastcall, nops>>

varsF == <<dom, cmp>>

vars ==
    <<heap, src, orig, idx, cpy, out, pc, ca, layout, ridx, rd, nreads, nfailed,
      written, fobj, fidx, fout, freads, arrays, cache, handles, lock, calls, wk,
      store, objs, hist, lastcall, nops, dom, cmp>>

----------------------------------------------------------------------------
(* Bounds of the model *)

MaxRank == 3     \* arrays have at most this many axes
MaxAxis == 3     \* every axis has size 2..MaxAxis
MaxSize == 8     \* arrays have at most this many elements
MaxList == 2     \* an integer-sequence index has 1..MaxList entries

----------------------------------------------------------------------------
(* Shapes, coordinates *)

RECURSIVE Prod(_)
Prod(s) == IF s = <<>> THEN 1 ELSE Head(s) * Prod(Tail(s))

\* The product of the sizes of the axes to the right of axis k (1-based).
Stride(shape, k) == Prod(SubSeq(shape, k + 1, Len(shape)))

\* The 0-based coordinates of the element at 0-based row-major position q.
Coord(q, shape) ==
    [k \in 1..Len(shape) |-> (q \div Stride(shape, k)) % shape[k]]

RECURSIVE FlatFrom(_, _, _)
FlatFrom(c, shape, k) ==
    IF k > Len(shape) THEN 0
    ELSE c[k] * Stride(shape, k) + FlatFrom(c, shape, k + 1)

\* The 0-based row-major position of the element at 0-based coordinates c.
Flat(c, shape) == FlatFrom(c, shape, 1)

RECURSIVE SeqsUpTo(_, _)
SeqsUpTo(S, n) ==
    IF n = 0 THEN {<<>>}
    ELSE SeqsUpTo(S, n - 1) \cup
         {<<x>> \o s : x \in S, s \in {t \in SeqsUpTo(S, n - 1) : Len(t) = n - 1}}

Shapes == {s \in SeqsUpTo(2..MaxAxis, MaxRank) : Prod(s) <= MaxSize}

----------------------------------------------------------------------------
(* Index expressions.  A slice field is <<>> (None) or <<n>>. *)

Slice(a, b, c) ==
    [kind |-> "slice", start |-> a, stop |-> b, step |-> c, items |-> <<>>]

List(xs) ==
    [kind |-> "list", start |-> <<>>, stop |-> <<>>, step |-> <<>>, items |-> xs]

SliceNone == Slice(<<>>, <<>>, <<>>)

Ellipsis == [ellipsis |-> TRUE, entries |-> <<>>]

Index(es) == [ellipsis |-> FALSE, entries |-> es]

\* slice.indices(n) of Python: the concrete start, stop and step.
SliceStep(s) == IF s.step = <<>> THEN 1 ELSE s.step[1]

SliceBound(f, n, step, dflt) ==
    IF f = <<>> THEN dflt
    ELSE LET b == IF f[1] < 0 THEN f[1] + n ELSE f[1]
         IN  IF b < 0 THEN (IF step < 0 THEN -1 ELSE 0)
             ELSE IF b >= n THEN (IF step < 0 THEN n - 1 ELSE n)
             ELSE b

SliceStart(s, n) ==
    SliceBound(s.start, n, SliceStep(s), IF SliceStep(s) < 0 THEN n - 1 ELSE 0)

SliceStop(s, n) ==
    SliceBound(s.stop, n, SliceStep(s), IF SliceStep(s) < 0 THEN -1 ELSE n)

SliceLen(s, n) ==
    LET a == SliceStart(s, n)
        b == SliceStop(s, n)
        c == SliceStep(s)
    IN  IF c < 0
        THEN (IF b < a THEN ((a - b - 1) \div (0 - c)) + 1 ELSE 0)
        ELSE (IF a < b THEN ((b - a - 1) \div c) + 1 ELSE 0)

\* The positions (0-based) an index entry selects along an axis of size n.
SlicePositions(s, n) ==
    [i \in 1..SliceLen(s, n) |-> SliceStart(s, n) + (i - 1) * SliceStep(s)]

ListPositions(xs, n) ==
    [i \in 1..Len(xs) |-> IF xs[i] < 0 THEN xs[i] + n ELSE xs[i]]

EntryPositions(e, n) ==
    IF e.kind = "slice" THEN SlicePositions(e, n) ELSE ListPositions(e.items, n)

----------------------------------------------------------------------------
(* numpy *)

Cell(v, m) == [v |-> v, m |-> m]

Array(shape, buf, offs, isMA) ==
    [shape |-> shape, buf |-> buf, offs |-> offs, isMA |-> isMA]

Res(h, a) == [ok |-> TRUE, err |-> "", heap |-> h, arr |-> a]

Err(h, a, e) == [ok |-> FALSE, err |-> e, heap |-> h, arr |-> a]

\* No array: what a call that raised has returned.
NoArray == Array(<<>>, 0, <<>>, FALSE)

\* What the caller keeps of a call: the array returned or the exception.
Outcome(r) == [ok |-> r.ok, err |-> r.err, arr |-> IF r.ok THEN r.arr ELSE NoArray]

\* The cells of array a, in row-major order.
Cells(h, a) == [q \in 1..Len(a.offs) |-> h[a.buf][a.offs[q]]]

\* A new array in a buffer of its own.
Alloc(h, shape, cells, isMA) ==
    Res(Append(h, cells),
        Array(shape, Len(h) + 1, [q \in 1..Len(cells) |-> q], isMA))

\* Per-axis selection: element c of the result is element
\* <<pos[1][c[1]], ..., pos[n][c[n]]>> of a.  The positions in a.offs.
SelectOffs(a, pos) ==
    LET rshape == [k \in 1..Len(pos) |-> Len(pos[k])]
    IN  [q \in 1..Prod(rshape) |->
            LET c == Coord(q - 1, rshape)
            IN  a.offs[Flat([k \in 1..Len(pos) |-> pos[k][c[k] + 1]], a.shape) + 1]]

SelectShape(pos) == [k \in 1..Len(pos) |-> Len(pos[k])]

ListAxes(entries) == {k \in 1..Len(entries) : entries[k].kind = "list"}

SetMin(S) == CHOOSE x \in S : \A y \in S : x <= y

SetMax(S) == CHOOSE x \in S : \A y \in S : x >= y

\* numpy's broadcast of several integer sequences along different axes:
\* the sequences are paired position by position.
BroadcastGetItem(h, a, entries) ==
    LET n      == Len(entries)
        la     == ListAxes(entries)
        pos    == [k \in 1..n |-> EntryPositions(entries[k], a.shape[k])]
        L      == SetMax({Len(pos[k]) : k \in la})
        first  == SetMin(la)
        last   == SetMax(la)
        adj    == last - first + 1 = Cardinality(la)
        sl     == {k \in 1..n : k \notin la}
        \* the axis of the result that holds the paired sequences
        lax    == IF adj THEN first ELSE 1
        \* the axis of the result that source slice axis k becomes
        rax(k) == IF adj
                  THEN (IF k < first THEN k ELSE k - Cardinality(la) + 1)
                  ELSE 1 + Cardinality({j \in sl : j <= k})
        rrank  == Cardinality(sl) + 1
        rshape == [r \in 1..rrank |->
                     IF r = lax THEN L
                     ELSE Len(pos[CHOOSE k \in sl : rax(k) = r])]
        offs   == [q \in 1..Prod(rshape) |->
                     LET c  == Coord(q - 1, rshape)
                         sc == [k \in 1..n |->
                                  IF k \in la
                                  THEN pos[k][IF Len(pos[k]) = 1 THEN 1 ELSE c[lax] + 1]
                                  ELSE pos[k][c[rax(k)] + 1]]
                     IN  a.offs[Flat(sc, a.shape) + 1]]
    IN  IF \E k \in la : Len(pos[k]) \notin {1, L}
        THEN Err(h, a, "IndexError")
        ELSE Alloc(h, rshape, [q \in 1..Len(offs) |-> h[a.buf][offs[q]]], a.isMA)

\* array[tuple(indices)]: slices alone give a view on the same buffer, an
\* integer sequence gives a new array.
NumpyGetItem(h, a, entries) ==
    LET pos  == [k \in 1..Len(entries) |-> EntryPositions(entries[k], a.shape[k])]
        offs == SelectOffs(a, pos)
        la   == ListAxes(entries)
    IN  IF la = {}
        THEN Res(h, Array(SelectShape(pos), a.buf, offs, a.isMA))
        ELSE IF Cardinality(la) = 1
        THEN Alloc(h, SelectShape(pos),
                   [q \in 1..Len(offs) |-> h[a.buf][offs[q]]], a.isMA)
        ELSE BroadcastGetItem(h, a, entries)

\* numpy.ma.take(array, items, axis): a new masked array.
MaTake(h, a, items, axis) ==
    LET pos  == [k \in 1..Len(a.shape) |->
                    IF k = axis THEN ListPositions(items, a.shape[k])
                    ELSE [i \in 1..a.shape[k] |-> i - 1]]
        offs == SelectOffs(a, pos)
    IN  Alloc(h, SelectShape(pos),
              [q \in 1..Len(offs) |-> h[a.buf][offs[q]]], TRUE)

\* numpy.take(array, items, axis): a new plain array (no mask).
NpTake(h, a, items, axis) ==
    LET pos  == [k \in 1..Len(a.shape) |->
                    IF k = axis THEN ListPositions(items, a.shape[k])
                    ELSE [i \in 1..a.shape[k] |-> i - 1]]
        offs == SelectOffs(a, pos)
    IN  Alloc(h, SelectShape(pos),
              [q \in 1..Len(offs) |-> Cell(h[a.buf][offs[q]].v, FALSE)], FALSE)

\* array.copy()
ArrayCopy(h, a) == Alloc(h, a.shape, Cells(h, a), a.isMA)

\* numpy.ma.empty((), dtype) left unassigned.
MaScalarEmpty(h, a) == Alloc(h, <<>>, <<Cell(0, FALSE)>>, TRUE)

\* numpy.ma.empty((), dtype); ma_array[...] = array
MaScalarCopy(h, a) == Alloc(h, <<>>, <<h[a.buf][a.offs[1]]>>, TRUE)

----------------------------------------------------------------------------
(* Array.get_subspace *)

\* The ascending sequence of the elements of a set of axes.
RECURSIVE SortedSeq(_)
SortedSeq(S) ==
    IF S = {} THEN <<>> ELSE <<SetMin(S)>> \o SortedSeq(S \ {SetMin(S)})

\* for axis in axes_with_list_indices:
\*     array = take(array, indices[axis], axis=axis); indices[axis] = slice(None)
RECURSIVE TakeLoop(_, _, _, _)
TakeLoop(h, a, entries, axes) ==
    IF axes = <<>> THEN [heap |-> h, arr |-> a, entries |-> entries]
    ELSE LET axis == Head(axes)
             t    == IF a.isMA THEN MaTake(h, a, entries[axis].items, axis)
                     ELSE NpTake(h, a, entries[axis].items, axis)
         IN  TakeLoop(t.heap, t.arr, [entries EXCEPT ![axis] = SliceNone],
                      Tail(axes))

\* A copy step that returns the array it was given.
CopyResultAliased(h, a) == Res(h, a)

\* if copy: ...
CopyResult(h, a) ==
    IF a.isMA /\ Len(a.shape) = 0 THEN MaScalarCopy(h, a) ELSE ArrayCopy(h, a)

\* A get_subspace that applies the slices and leaves the axis of a single
\* integer sequence whole.
SubspaceSlicesOnly(h, array, indices) ==
    IF indices.ellipsis THEN Res(h, array)
    ELSE NumpyGetItem(h, array,
             [k \in DOMAIN indices.entries |->
                 IF indices.entries[k].kind = "list" THEN SliceNone
                 ELSE indices.entries[k]])

\* A get_subspace that hands every index to numpy's own indexing.
SubspaceBroadcast(h, array, indices) ==
    IF indices.ellipsis THEN Res(h, array)
    ELSE NumpyGetItem(h, array, indices.entries)

Subspace(h, array, indices) ==
    IF indices.ellipsis THEN Res(h, array)
    ELSE LET axes_with_list_indices == SortedSeq(ListAxes(indices.entries))
             n_axes_with_list_indices == Len(axes_with_list_indices)
         IN  IF n_axes_with_list_indices < 2
             THEN NumpyGetItem(h, array, indices.entries)
             ELSE LET t == TakeLoop(h, array, indices.entries,
                                    axes_with_list_indices)
                  IN  IF n_axes_with_list_indices < Len(indices.entries)
                      THEN NumpyGetItem(t.heap, t.arr, t.entries)
                      ELSE Res(t.heap, t.arr)

get_subspace(h, array, indices, copy) ==
    LET r == Subspace(h, array, indices)
    IN  IF copy /\ r.ok THEN CopyResult(r.heap, r.arr) ELSE r

----------------------------------------------------------------------------
(* The arrays and the indices the model draws *)

\* The slices tried along an axis: everything, reversed, from 1, up to the
\* last but one, every second element.
SliceSet ==
    {SliceNone, Slice(<<>>, <<>>, <<-1>>), Slice(<<1>>, <<>>, <<>>),
     Slice(<<>>, <<-1>>, <<>>), Slice(<<>>, <<>>, <<2>>)}

ListSet(n) == {List(xs) : xs \in SeqsUpTo(0..(n - 1), MaxList) \ {<<>>}}

EntrySet(n) == SliceSet \cup ListSet(n)

RECURSIVE EntrySeqs(_)
EntrySeqs(shape) ==
    IF shape = <<>> THEN {<<>>}
    ELSE {<<e>> \o r : e \in EntrySet(Head(shape)), r \in EntrySeqs(Tail(shape))}

IndexSet(shape) ==
    IF shape = <<>> THEN {Ellipsis}
    ELSE {Ellipsis} \cup {Index(es) : es \in EntrySeqs(shape)}

\* The masks tried: a plain array, a masked array with nothing masked, and a
\* masked array with every second element masked.
InitCells(n, mk) ==
    [p \in 1..n |-> Cell(p, mk = "alternate" /\ p % 2 = 1)]

----------------------------------------------------------------------------
(* The state of the parts of the program a specification leaves alone *)

NoLayout ==
    [kind |-> "none", sizes |-> <<>>, gidx |-> <<>>, spans |-> <<>>,
     lists |-> <<>>, pspans |-> <<>>, espans |-> <<>>]

NoCompression ==
    [type |-> "none", axis |-> 0, indices |-> <<>>,
     instance_axis |-> 0, instance_index |-> 0,
     i_element_axis |-> 0, i_element_index |-> 0, i_element_indices |-> <<>>,
     c_element_axis |-> 0, c_element_indices |-> SliceNone]

IdleA ==
    /\ src = Array(<<>>, 1, <<1>>, FALSE)
    /\ orig = <<>>
    /\ idx = Ellipsis
    /\ cpy = FALSE
    /\ out = Outcome(Err(<<>>, Array(<<>>, 1, <<1>>, FALSE), ""))
    /\ pc = "idle"

IdleB ==
    /\ ca = [array |-> Array(<<>>, 1, <<1>>, FALSE), compression |-> NoCompression,
             shape |-> <<>>, ndim |-> 0, size |-> 1]
    /\ layout = NoLayout
    /\ ridx = Ellipsis
    /\ rd = Outcome(Err(<<>>, Array(<<>>, 1, <<1>>, FALSE), ""))
    /\ nreads = 0
    /\ nfailed = 0
    /\ written = FALSE

NoObject ==
    [class |-> "none", array |-> NoArray, ncvar |-> <<>>, varid |-> <<>>,
     ndim |-> 0, shape |-> <<>>]

\* No call has been made on a Container or a FileArray.
NoCall ==
    [op |-> "none", obj |-> 0, key |-> "", raised |-> FALSE,
     val |-> [ref |-> FALSE, v |-> 0, a |-> "None"], args |-> <<>>,
     default |-> [exc |-> FALSE, args |-> <<>>,
                  val |-> [ref |-> FALSE, v |-> 0, a |-> "None"]]]

IdleE ==
    /\ store = <<>>
    /\ objs = <<>>
    /\ hist = <<>>
    /\ lastcall = NoCall
    /\ nops = 0

IdleF ==
    /\ dom = <<>>
    /\ cmp = <<>>

IdleD ==
    /\ fobj = NoObject
    /\ fidx = Ellipsis
    /\ fout = Outcome(Err(<<>>, NoArray, ""))
    /\ freads = 0

IdleC ==
    /\ arrays = <<>>
    /\ cache = <<>>
    /\ handles = <<>>
    /\ lock = <<>>
    /\ calls = 0
    /\ wk = <<>>

----------------------------------------------------------------------------
(* Specification of get_subspace and of a later write to its result *)

Init ==
    /\ \E shape \in Shapes, mk \in {"plain", "nomask", "alternate"} :
          /\ heap = <<InitCells(Prod(shape), mk)>>
          /\ src = Array(shape, 1, [q \in 1..Prod(shape) |-> q], mk # "plain")
          /\ orig = InitCells(Prod(shape), mk)
    /\ idx = Ellipsis
    /\ cpy = FALSE
    /\ out = Outcome(Res(heap, src))
    /\ pc = "start"
    /\ IdleB
    /\ IdleC
    /\ IdleD
    /\ IdleE
    /\ IdleF

\* out = get_subspace(src, indices, copy)
Extract ==
    /\ pc = "start"
    /\ \E indices \in IndexSet(src.shape), copy \in BOOLEAN :
          LET r == get_subspace(heap, src, indices, copy)
          IN  /\ idx' = indices
              /\ cpy' = copy
              /\ out' = Outcome(r)
              /\ heap' = r.heap
    /\ pc' = "extracted"
    /\ UNCHANGED <<src, orig>>
    /\ UNCHANGED varsB
    /\ UNCHANGED varsC
    /\ UNCHANGED varsD
    /\ UNCHANGED varsE
    /\ UNCHANGED varsF

\* out[...] = 0 (the caller writes every element of the returned array; on
\* a masked array the write may also set the mask)
Mutate ==
    /\ pc = "extracted"
    /\ out.ok
    /\ \E m \in (IF out.arr.isMA THEN BOOLEAN ELSE {FALSE}) :
          heap' = [heap EXCEPT ![out.arr.buf] =
                      [p \in DOMAIN @ |->
                          IF \E q \in DOMAIN out.arr.offs : out.arr.offs[q] = p
                          THEN Cell(0, m) ELSE @[p]]]
    /\ pc' = "mutated"
    /\ UNCHANGED <<src, orig, idx, cpy, out>>
    /\ UNCHANGED varsB
    /\ UNCHANGED varsC
    /\ UNCHANGED varsD
    /\ UNCHANGED varsE
    /\ UNCHANGED varsF

Next == Extract \/ Mutate

Spec == Init /\ [][Next]_vars

----------------------------------------------------------------------------
(* Properties of get_subspace *)

\* The element of the source, as constructed, that index entry e selects at
\* 0-based position i of the result along an axis of size n.
Sel(e, n, i) ==
    IF e.kind = "list" THEN e.items[i + 1]
    ELSE SliceStart(e, n) + i * SliceStep(e)

SelLen(e, n) == IF e.kind = "list" THEN Len(e.items) ELSE SliceLen(e, n)

\* The result is the independent per-axis selection from the source.
IsBlock ==
    /\ out.ok
    /\ Len(out.arr.shape) = Len(src.shape)
    /\ \A k \in 1..Len(src.shape) :
          out.arr.shape[k] = SelLen(idx.entries[k], src.shape[k])
    /\ Len(out.arr.offs) = Prod(out.arr.shape)
    /\ \A q \in 1..Prod(out.arr.shape) :
          LET c == Coord(q - 1, out.arr.shape)
              s == [k \in 1..Len(src.shape) |->
                      Sel(idx.entries[k], src.shape[k], c[k])]
          IN  heap[out.arr.buf][out.arr.offs[q]] = orig[Flat(s, src.shape) + 1]

\* C1: with two or more integer-sequence axes get_subspace returns the
\* independent Cartesian block: size len(sequence) along each such axis and
\* result[i0,...,in] = array[sel_0(i0),...,sel_n(in)], never the pairing of
\* positions across axes.
C1_CartesianBlock ==
    (pc = "extracted" /\ ~idx.ellipsis
        /\ Cardinality(ListAxes(idx.entries)) >= 2) => IsBlock

\* [[1,2,3],[4,5,6]] with axis-0 [1,0] and axis-1 [2,0] gives [[6,4],[3,1]].
C1_Witness ==
    /\ pc = "extracted"
    /\ src.shape = <<2, 3>>
    /\ idx = Index(<<List(<<1, 0>>), List(<<2, 0>>)>>)
    /\ out.ok
    /\ out.arr.shape = <<2, 2>>
    /\ [q \in 1..4 |-> Cells(heap, out.arr)[q].v] = <<6, 4, 3, 1>>

\* C28: with at most one integer-sequence axis get_subspace returns what one
\* combined indexing operation gives: every slice axis selects its range,
\* the one integer-sequence axis exactly its listed positions in listed
\* order, each axis independently of the others.
C28_CombinedIndexing ==
    (pc = "extracted" /\ ~idx.ellipsis
        /\ Cardinality(ListAxes(idx.entries)) <= 1) => IsBlock

\* [[1,2,3],[4,5,6]] with axis 0 reversed and axis-1 [2,0] gives [[6,4],[3,1]].
C28_Witness ==
    /\ pc = "extracted"
    /\ src.shape = <<2, 3>>
    /\ idx = Index(<<Slice(<<>>, <<>>, <<-1>>), List(<<2, 0>>)>>)
    /\ out.ok
    /\ out.arr.shape = <<2, 2>>
    /\ [q \in 1..4 |-> Cells(heap, out.arr)[q].v] = <<6, 4, 3, 1>>

\* C6: with copy true the result shares no storage with the input: after a
\* write to every element (and mask bit) of the result, every element and
\* mask bit of the input is as constructed, and the result is in a buffer
\* other than the input's.
C6_CopyUnaliased ==
    /\ (pc = "mutated" /\ cpy) => Cells(heap, src) = orig
    /\ (pc # "start" /\ cpy /\ out.ok) => out.arr.buf # src.buf

\* A rank-0 masked value extracted with the wildcard and copy, then written.
C6_Witness ==
    /\ pc = "mutated"
    /\ cpy
    /\ idx.ellipsis
    /\ src.shape = <<>>
    /\ src.isMA
    /\ orig[1].m
    /\ Cells(heap, out.arr) # orig

\* C7: with the wildcard get_subspace returns an array of the same shape
\* whose every value and mask bit equals the input's.
C7_WildcardEqual ==
    (pc = "extracted" /\ idx.ellipsis) =>
        /\ out.ok
        /\ out.arr.shape = src.shape
        /\ out.arr.isMA = src.isMA
        /\ Cells(heap, out.arr) = orig

\* A masked 2-d array and a masked rank-0 value are both copied this way.
C7_Witness ==
    /\ pc = "extracted"
    /\ idx.ellipsis
    /\ cpy
    /\ src.isMA
    /\ src.shape = <<>>
    /\ orig[1].m
    /\ out.arr.buf # src.buf

----------------------------------------------------------------------------
(* CompressedArray *)

MaxInst == 2      \* a ragged array has 1..MaxInst instances
MaxElem == 3      \* an instance (a profile) has 0..MaxElem elements
MaxProf == 2      \* an indexed contiguous array has 1..MaxProf profiles
MaxGather == 3    \* a gathered array has 0..MaxGather samples
MaxReads == 2     \* __getitem__ calls made on one CompressedArray
MaxCut == 1       \* elements the compressed array may lack of what its
                  \* compression describes

\* A constructor that takes the number of axes for the number of elements.
CompressedArraySizeOfRank(array, shape, compression) ==
    [array |-> array, compression |-> compression, shape |-> shape,
     ndim |-> Len(shape), size |-> Len(shape)]

\* CompressedArray.__init__
CompressedArray(array, shape, compression) ==
    [array |-> array, compression |-> compression, shape |-> shape,
     ndim |-> Len(shape), size |-> Prod(shape)]

\* numpy.ma.masked_all(shape): a new array with every element masked.
numpy_ma_masked_all(h, shape) ==
    Alloc(h, shape, [q \in 1..Prod(shape) |-> Cell(0, TRUE)], TRUE)

\* array[sample_indices] on the one-dimensional compressed array: its cells.
PayloadItems(h, array, e) ==
    LET pos == EntryPositions(e, array.shape[1])
    IN  [j \in 1..Len(pos) |-> h[array.buf][array.offs[pos[j] + 1]]]

\* An integer entry of p_indices.
IntEntry(i) ==
    [kind |-> "int", start |-> <<>>, stop |-> <<>>, step |-> <<>>, items |-> <<i>>]

\* uarray[tuple(p_indices)] = rhs for a one-dimensional rhs.  The region
\* written is the product of the entries of p_indices; rhs runs along the
\* last axis that holds a slice.  numpy broadcasts a one-element rhs and
\* refuses any other rhs whose length is not the region's.
SetItem(h, u, p_indices, rhs) ==
    LET n      == Len(u.shape)
        pos    == [k \in 1..n |->
                     IF p_indices[k].kind = "int" THEN p_indices[k].items
                     ELSE SlicePositions(p_indices[k], u.shape[k])]
        sl     == {k \in 1..n : p_indices[k].kind = "slice"}
        m      == Len(rhs)
        r      == IF sl = {} THEN 1 ELSE Len(pos[SetMax(sl)])
        at(c, k) == CHOOSE j \in 1..Len(pos[k]) : pos[k][j] = c[k]
        inside(c) == \A k \in 1..n : \E j \in 1..Len(pos[k]) : pos[k][j] = c[k]
    IN  IF m # r /\ m # 1 THEN Err(h, u, "ValueError")
        ELSE Res([h EXCEPT ![u.buf] =
                    [p \in DOMAIN @ |->
                        IF \E q \in 1..Len(u.offs) :
                              u.offs[q] = p /\ inside(Coord(q - 1, u.shape))
                        THEN LET q == CHOOSE q \in 1..Len(u.offs) : u.offs[q] = p
                                 c == Coord(q - 1, u.shape)
                             IN  rhs[IF m = 1 \/ sl = {} THEN 1
                                     ELSE at(c, SetMax(sl))]
                        ELSE @[p]]], u)

\* p_indices = [slice(None)] * uarray.ndim with the given entries replaced.
PIndices(n, set) ==
    [k \in 1..n |-> IF (k - 1) \in DOMAIN set THEN set[k - 1] ELSE SliceNone]

\* len(compressed_axes) in the 'gathered' branch.
n_compressed_axes(self) ==
    self.ndim - (Len(self.array.shape) - self.compression.axis - 1)
        - self.compression.axis

\* The list zzz.  With one compressed axis the comprehension is empty; with
\* more its first element reads the name shape, which is not bound.
GatherFactors(self) ==
    IF n_compressed_axes(self) >= 2
    THEN [ok |-> FALSE, err |-> "NameError", zzz |-> <<>>]
    ELSE [ok |-> TRUE, err |-> "", zzz |-> <<>>]

\* for i, z in enumerate(zzz): if b >= z: (a, b) = divmod(b, z); xxx[i] = a
\*                             xxx[-1] = b
\* from element i of zzz on (counted from 1).
RECURSIVE GatherLoop(_, _, _, _)
GatherLoop(zzz, i, b, xxx) ==
    IF i > Len(zzz) THEN xxx
    ELSE LET z  == zzz[i]
             b2 == IF b >= z THEN b % z ELSE b
             x1 == IF b >= z THEN [xxx EXCEPT ![i] = b \div z] ELSE xxx
         IN  GatherLoop(zzz, i + 1, b2, [x1 EXCEPT ![Len(xxx)] = b2])

\* The coordinates xxx the branch computes for the gather index b.
GatherDecode(self, b) ==
    LET f == GatherFactors(self)
    IN  [ok  |-> f.ok, err |-> f.err,
         xxx |-> IF f.ok
                 THEN GatherLoop(f.zzz, 1, b, [k \in 1..n_compressed_axes(self) |-> 0])
                 ELSE <<>>]

\* The 'gathered' branch.  compressed_axes is computed; the list zzz reads
\* the name shape, which the method never binds, as soon as there are two
\* compressed axes; the loop over the indices calls izip, which the module
\* never imports.
GatheredBranch(h, self, u) ==
    IF ~GatherFactors(self).ok THEN Err(h, u, GatherFactors(self).err)
    ELSE IF Len(self.compression.indices) > 0 THEN Err(h, u, "NameError")
    ELSE Res(h, u)

\* The 'DSG_contiguous' branch: the row of instance_index alone is written.
ContiguousBranch(h, self, u) ==
    LET c == self.compression
        sample_indices == c.c_element_indices
    IN  SetItem(h, u,
                PIndices(Len(u.shape),
                    (c.instance_axis :> IntEntry(c.instance_index)) @@
                    (c.c_element_axis :>
                        Slice(<<0>>,
                              <<sample_indices.stop[1] - sample_indices.start[1]>>,
                              <<>>))),
                PayloadItems(h, self.array, sample_indices))

\* The 'DSG_indexed' branch: the row of instance_index alone is written.
\* numpy refuses a position outside the compressed array.
IndexedBranch(h, self, u) ==
    LET c == self.compression
        sample_indices == c.i_element_indices
    IN  IF \E j \in DOMAIN sample_indices : sample_indices[j] >= self.array.shape[1]
        THEN Err(h, u, "IndexError")
        ELSE
        SetItem(h, u,
                PIndices(Len(u.shape),
                    (c.instance_axis :> IntEntry(c.instance_index)) @@
                    (c.i_element_axis :>
                        Slice(<<0>>, <<Len(sample_indices)>>, <<>>))),
                PayloadItems(h, self.array, List(sample_indices)))

\* The 'DSG_indexed_contiguous' branch: one profile of one instance is written.
IndexedContiguousBranch(h, self, u) ==
    LET c == self.compression
    IN  SetItem(h, u,
                PIndices(Len(u.shape),
                    (c.instance_axis :> IntEntry(c.instance_index)) @@
                    (c.i_element_axis :> IntEntry(c.i_element_index)) @@
                    (c.c_element_axis :>
                        Slice(<<0>>,
                              <<c.c_element_indices.stop[1]
                                  - c.c_element_indices.start[1]>>,
                              <<>>))),
                PayloadItems(h, self.array, c.c_element_indices))

\* A dispatch that returns the empty uarray for an unknown compression_type.
UncompressLenient(h, self) ==
    LET a == numpy_ma_masked_all(h, self.shape)
        t == self.compression.type
    IN  IF t = "gathered" THEN GatheredBranch(a.heap, self, a.arr)
        ELSE IF t = "DSG_contiguous" THEN ContiguousBranch(a.heap, self, a.arr)
        ELSE IF t = "DSG_indexed" THEN IndexedBranch(a.heap, self, a.arr)
        ELSE IF t = "DSG_indexed_contiguous"
        THEN IndexedContiguousBranch(a.heap, self, a.arr)
        ELSE Res(a.heap, a.arr)

\* The dispatch on compression_type, after uarray has been allocated; any
\* other type raises ValueError("Unkown compression type").
Uncompress(h, self) ==
    LET a == numpy_ma_masked_all(h, self.shape)
        t == self.compression.type
    IN  IF t = "gathered" THEN GatheredBranch(a.heap, self, a.arr)
        ELSE IF t = "DSG_contiguous" THEN ContiguousBranch(a.heap, self, a.arr)
        ELSE IF t = "DSG_indexed" THEN IndexedBranch(a.heap, self, a.arr)
        ELSE IF t = "DSG_indexed_contiguous"
        THEN IndexedContiguousBranch(a.heap, self, a.arr)
        ELSE Err(a.heap, a.arr, "ValueError")

\* parse_indices(shape, indices): the wildcard, which becomes slice(None)
\* on every axis, or one entry per axis, each a slice or an integer
\* sequence; anything else is an error.
parse_indices(shape, indices) ==
    IF indices.ellipsis
    THEN [ok |-> TRUE, err |-> "", indices |-> Index([k \in 1..Len(shape) |-> SliceNone])]
    ELSE IF \/ Len(indices.entries) # Len(shape)
            \/ \E k \in DOMAIN indices.entries :
                  indices.entries[k].kind \notin {"slice", "list"}
    THEN [ok |-> FALSE, err |-> "InvalidIndex", indices |-> indices]
    ELSE [ok |-> TRUE, err |-> "", indices |-> indices]

\* A __getitem__ that returns the compressed array itself for the wildcard.
CompressedGetItemPayload(h, self, indices) ==
    LET u == Uncompress(h, self)
    IN  IF ~u.ok THEN u
        ELSE IF indices.ellipsis THEN Res(u.heap, self.array)
        ELSE LET p == parse_indices(self.shape, indices)
             IN  IF ~p.ok THEN Err(u.heap, u.arr, p.err)
                 ELSE get_subspace(u.heap, u.arr, p.indices, TRUE)

\* A __getitem__ that returns the whole uncompressed array whatever the
\* indices.
CompressedGetItemWhole(h, self, indices) ==
    Uncompress(h, self)

\* CompressedArray.__getitem__
CompressedGetItem(h, self, indices) ==
    LET u == Uncompress(h, self)
    IN  IF ~u.ok THEN u
        ELSE IF indices.ellipsis THEN u
        ELSE LET p == parse_indices(self.shape, indices)
             IN  IF ~p.ok THEN Err(u.heap, u.arr, p.err)
                 ELSE get_subspace(u.heap, u.arr, p.indices, TRUE)

----------------------------------------------------------------------------
(* The compressed arrays the model draws.  A layout is the structure of    *)
(* the whole array (every instance); the compression dictionary is built   *)
(* from it for one instance, as CompressedArray.__getitem__ reads it.      *)

RECURSIVE Sum(_)
Sum(s) == IF s = <<>> THEN 0 ELSE Head(s) + Sum(Tail(s))

\* The half-open spans of consecutive runs of the given lengths.
Spans(counts) ==
    [j \in 1..Len(counts) |->
        <<Sum(SubSeq(counts, 1, j - 1)), Sum(SubSeq(counts, 1, j))>>]

Payload(n) == [p \in 1..n |-> Cell(10 * p, FALSE)]

PayloadArray(n) == Array(<<n>>, 1, [q \in 1..n |-> q], FALSE)

Layout(kind, sizes, gidx, spans, lists, pspans, espans) ==
    [kind |-> kind, sizes |-> sizes, gidx |-> gidx, spans |-> spans,
     lists |-> lists, pspans |-> pspans, espans |-> espans]

GatheredLayouts ==
    UNION {{Layout("gathered", sizes, SortedSeq(S), <<>>, <<>>, <<>>, <<>>) :
               S \in {T \in SUBSET (0..(Prod(sizes) - 1)) :
                         Cardinality(T) <= MaxGather}} :
           sizes \in Shapes \ {<<>>}}

ContiguousLayouts ==
    {Layout("DSG_contiguous", <<Len(counts), MaxElem>>, <<>>, Spans(counts),
            <<>>, <<>>, <<>>) :
        counts \in SeqsUpTo(0..MaxElem, MaxInst) \ {<<>>}}

\* Element p of the payload belongs to instance owner[p]; an instance lists
\* its elements in ascending or in descending order.
IndexedLists(owner, n, descending) ==
    [i \in 1..n |->
        LET up == SortedSeq({q - 1 : q \in {p \in DOMAIN owner : owner[p] = i}})
        IN  IF descending THEN [j \in 1..Len(up) |-> up[Len(up) + 1 - j]] ELSE up]

IndexedLayouts ==
    UNION {{Layout("DSG_indexed", <<n, MaxElem>>, <<>>, <<>>,
                   IndexedLists(owner, n, d), <<>>, <<>>) :
               d \in BOOLEAN,
               owner \in UNION {[1..m -> 1..n] : m \in 0..MaxElem}} :
           n \in 1..MaxInst}

\* Instance i owns profs[i] consecutive profiles; profile p (counted from 1
\* over all instances) holds (p + shift) mod (MaxElem + 1) elements.
IndexedContiguousLayouts ==
    {Layout("DSG_indexed_contiguous",
            <<Len(profs), MaxProf, MaxElem>>, <<>>, <<>>, <<>>,
            Spans(profs),
            Spans([p \in 1..Sum(profs) |-> (p + shift) % (MaxElem + 1)])) :
        profs \in SeqsUpTo(0..MaxProf, MaxInst) \ {<<>>},
        shift \in 0..MaxElem}

\* The number of elements of the compressed array of a layout.
PayloadSize(l) ==
    IF l.kind = "gathered" THEN Len(l.gidx)
    ELSE IF l.kind \in {"DSG_contiguous", "other"} THEN
        (IF l.spans = <<>> THEN 0 ELSE l.spans[Len(l.spans)][2])
    ELSE IF l.kind = "DSG_indexed" THEN Sum([i \in 1..Len(l.lists) |-> Len(l.lists[i])])
    ELSE (IF l.espans = <<>> THEN 0 ELSE l.espans[Len(l.espans)][2])

Compression(type, axis, indices, instance_index, i_element_index, i_element_indices, c_element_axis, c_element_indices) ==
    [type |-> type, axis |-> axis, indices |-> indices,
     instance_axis |-> 0, instance_index |-> instance_index,
     i_element_axis |-> 1, i_element_index |-> i_element_index,
     i_element_indices |-> i_element_indices,
     c_element_axis |-> c_element_axis, c_element_indices |-> c_element_indices]

\* The compression dictionaries of a layout: one per instance (and profile).
Compressions(l) ==
    IF l.kind = "gathered"
    THEN {Compression("gathered", 0, l.gidx, 0, 0, <<>>, 0, SliceNone)}
    ELSE IF l.kind = "DSG_contiguous"
    THEN {Compression("DSG_contiguous", 0, <<>>, i - 1, 0, <<>>, 1,
                      Slice(<<l.spans[i][1]>>, <<l.spans[i][2]>>, <<>>)) :
             i \in 1..Len(l.spans)}
    ELSE IF l.kind = "DSG_indexed"
    THEN {Compression("DSG_indexed", 0, <<>>, i - 1, 0, l.lists[i], 0, SliceNone) :
             i \in 1..Len(l.lists)}
    ELSE IF l.kind = "other"
    THEN {Compression("other", 0, <<>>, 0, 0, <<>>, 1, SliceNone)}
    ELSE {Compression("DSG_indexed_contiguous", 0, <<>>, ij[1] - 1, ij[2] - 1,
                      <<>>, 2,
                      Slice(<<l.espans[l.pspans[ij[1]][1] + ij[2]][1]>>,
                            <<l.espans[l.pspans[ij[1]][1] + ij[2]][2]>>, <<>>)) :
             ij \in {x \in (1..Len(l.pspans)) \X (1..MaxProf) :
                        x[2] <= l.pspans[x[1]][2] - l.pspans[x[1]][1]}}

\* A compression of a type the method does not know.
OtherLayouts ==
    {Layout("other", <<Len(counts), MaxElem>>, <<>>, Spans(counts),
            <<>>, <<>>, <<>>) :
        counts \in SeqsUpTo(1..2, MaxInst) \ {<<>>}}

Layouts ==
    GatheredLayouts \cup ContiguousLayouts \cup IndexedLayouts
        \cup IndexedContiguousLayouts \cup OtherLayouts

\* The indices tried on a CompressedArray: the wildcard, one entry per axis
\* (reversed slices, an integer sequence on the last axis), one entry too many.
ReadIndices(shape) ==
    {Ellipsis,
     Index([k \in 1..Len(shape) |->
              IF k = Len(shape) THEN List(<<0>>) ELSE Slice(<<>>, <<>>, <<-1>>)]),
     Index([k \in 1..(Len(shape) + 1) |-> SliceNone])}

----------------------------------------------------------------------------
(* Specification of reads of a CompressedArray *)

InitCompressed ==
    /\ \E l \in Layouts :
          \E c \in Compressions(l), cut \in 0..MaxCut :
             /\ cut <= PayloadSize(l)
             /\ layout = l
             /\ heap = <<Payload(PayloadSize(l) - cut)>>
             /\ ca = CompressedArray(PayloadArray(PayloadSize(l) - cut), l.sizes, c)
    /\ ridx = Ellipsis
    /\ rd = Outcome(Err(<<>>, Array(<<>>, 1, <<1>>, FALSE), ""))
    /\ nreads = 0
    /\ nfailed = 0
    /\ written = FALSE
    /\ IdleA
    /\ IdleC
    /\ IdleD
    /\ IdleE
    /\ IdleF

\* The buffers alive when a read starts: those up to the compressed array.
\* The arrays the read before allocated are released as rd is bound anew.
Resident == SubSeq(heap, 1, ca.array.buf)

\* The array the last read returned is as the caller overwrote it.
Overwritten ==
    /\ rd.ok
    /\ Len(rd.arr.offs) > 0
    /\ \A q \in DOMAIN rd.arr.offs : heap[rd.arr.buf][rd.arr.offs[q]] = Cell(99, FALSE)

\* A read that keeps the array it returns in place of the compressed array.
GetItemKeeping ==
    /\ nreads < MaxReads
    /\ \E indices \in ReadIndices(ca.shape) :
          \E r \in {CompressedGetItem(Resident, ca, indices)} :
              /\ ridx' = indices
              /\ rd' = Outcome(r)
              /\ heap' = r.heap
              /\ ca' = IF r.ok THEN [ca EXCEPT !.array = r.arr] ELSE ca
    /\ nfailed' = IF rd'.ok THEN nfailed ELSE nfailed + 1
    /\ written' = (written /\ Overwritten)
    /\ nreads' = nreads + 1
    /\ UNCHANGED layout
    /\ UNCHANGED varsA
    /\ UNCHANGED varsC
    /\ UNCHANGED varsD
    /\ UNCHANGED varsE
    /\ UNCHANGED varsF

\* rd = ca[indices]; the record of a write of the caller is kept over the
\* read that follows the write.
GetItem ==
    /\ nreads < MaxReads
    /\ \E indices \in ReadIndices(ca.shape) :
          \E r \in {CompressedGetItem(Resident, ca, indices)} :
              /\ ridx' = indices
              /\ rd' = Outcome(r)
              /\ heap' = r.heap
    /\ nfailed' = IF rd'.ok THEN nfailed ELSE nfailed + 1
    /\ written' = (written /\ Overwritten)
    /\ nreads' = nreads + 1
    /\ UNCHANGED <<ca, layout>>
    /\ UNCHANGED varsA
    /\ UNCHANGED varsC
    /\ UNCHANGED varsD
    /\ UNCHANGED varsE
    /\ UNCHANGED varsF

\* CompressedArray.copy: new.__dict__ = self.__dict__.copy()
CompressedCopy(self) ==
    [array |-> self.array, compression |-> self.compression, shape |-> self.shape,
     ndim |-> self.ndim, size |-> self.size]

\* ca = ca.copy(): the program goes on with the copy.
CopyCompressed ==
    /\ ca' = CompressedCopy(ca)
    /\ UNCHANGED <<heap, layout, ridx, rd, nreads, nfailed, written>>
    /\ UNCHANGED varsA
    /\ UNCHANGED varsC
    /\ UNCHANGED varsD
    /\ UNCHANGED varsE
    /\ UNCHANGED varsF

\* ca.close(): the compressed array is a numpy array in memory, so
\* on_disk() is false and nothing is closed.
CloseCompressed ==
    /\ UNCHANGED <<heap, ca, layout, ridx, rd, nreads, nfailed, written>>
    /\ UNCHANGED varsA
    /\ UNCHANGED varsC
    /\ UNCHANGED varsD
    /\ UNCHANGED varsE
    /\ UNCHANGED varsF

NextCompressed == GetItem \/ CopyCompressed \/ CloseCompressed

SpecCompressed == InitCompressed /\ [][NextCompressed]_vars

\* The caller writes over every element of the array the first read
\* returned: rd[...] = 99.  Another read follows.
WriteResult ==
    /\ nreads = 1
    /\ nreads < MaxReads
    /\ rd.ok
    /\ Len(rd.arr.offs) > 0
    /\ heap' = [heap EXCEPT ![rd.arr.buf] =
                   [p \in DOMAIN @ |->
                       IF \E q \in DOMAIN rd.arr.offs : rd.arr.offs[q] = p
                       THEN Cell(99, FALSE) ELSE @[p]]]
    /\ written' = TRUE
    /\ UNCHANGED <<ca, layout, ridx, rd, nreads, nfailed>>
    /\ UNCHANGED varsA
    /\ UNCHANGED varsC
    /\ UNCHANGED varsD
    /\ UNCHANGED varsE
    /\ UNCHANGED varsF

NextReadWrite == GetItem \/ WriteResult

\* Reads of a CompressedArray whose caller writes over the arrays returned.
SpecReadWrite == InitCompressed /\ [][NextReadWrite]_vars

----------------------------------------------------------------------------
(* Properties of a full read of a CompressedArray *)

\* The cell of array a at 0-based coordinates c.
CellAt(h, a, c) == h[a.buf][a.offs[Flat(c, a.shape) + 1]]

\* Element i (0-based) of the compressed array.
PayloadCell(i) == heap[ca.array.buf][ca.array.offs[i + 1]]

\* The compressed array has the elements its compression describes.
Consistent == Len(heap[ca.array.buf]) = PayloadSize(layout)

FullRead(kind) == nreads > 0 /\ ridx.ellipsis /\ layout.kind = kind /\ Consistent

\* C2: a full read of a RaggedContiguous array fills the row of every
\* instance: positions [0, stop-start) of the row of an instance with span
\* [start, stop) hold the payload's values start..stop-1 in order and the
\* positions from stop-start on are masked.
C2_ContiguousEveryInstance ==
    FullRead("DSG_contiguous") =>
        /\ rd.ok
        /\ rd.arr.shape = layout.sizes
        /\ \A j \in 1..Len(layout.spans) : \A e \in 0..(layout.sizes[2] - 1) :
              LET start == layout.spans[j][1]
                  stop  == layout.spans[j][2]
                  cell  == CellAt(heap, rd.arr, <<j - 1, e>>)
              IN  IF e < stop - start
                  THEN cell = PayloadCell(start + e)
                  ELSE cell.m

\* C3: a full read of a Gathered array places sample i at the row-major
\* decoding of gather_indices[i] and leaves every other cell masked.
C3_GatheredPlacement ==
    FullRead("gathered") =>
        /\ rd.ok
        /\ rd.arr.shape = layout.sizes
        /\ \A q \in 0..(Prod(layout.sizes) - 1) :
              LET cell == CellAt(heap, rd.arr, Coord(q, layout.sizes))
              IN  IF \E i \in 1..Len(layout.gidx) : layout.gidx[i] = q
                  THEN cell = PayloadCell(
                          (CHOOSE i \in 1..Len(layout.gidx) : layout.gidx[i] = q) - 1)
                  ELSE cell.m

\* C4: a full read of a RaggedIndexed array fills the row of every
\* instance: the payload elements at per_instance_indices[instance], in
\* listed order, from position 0 on, and the rest of the row masked.
C4_IndexedEveryInstance ==
    FullRead("DSG_indexed") =>
        /\ rd.ok
        /\ rd.arr.shape = layout.sizes
        /\ \A j \in 1..Len(layout.lists) : \A e \in 0..(layout.sizes[2] - 1) :
              LET cell == CellAt(heap, rd.arr, <<j - 1, e>>)
              IN  IF e < Len(layout.lists[j])
                  THEN cell = PayloadCell(layout.lists[j][e + 1])
                  ELSE cell.m

\* C5: a full read of a RaggedIndexedContiguous array fills every profile
\* of every instance: cells [instance, profile offset, 0..count-1] hold the
\* profile's element span of the payload and every other cell is masked.
C5_IndexedContiguousEveryProfile ==
    FullRead("DSG_indexed_contiguous") =>
        /\ rd.ok
        /\ rd.arr.shape = layout.sizes
        /\ \A i \in 1..Len(layout.pspans) :
           \A j \in 0..(layout.sizes[2] - 1) :
           \A e \in 0..(layout.sizes[3] - 1) :
              LET cell == CellAt(heap, rd.arr, <<i - 1, j, e>>)
                  p    == layout.pspans[i][1] + j + 1
              IN  IF /\ j < layout.pspans[i][2] - layout.pspans[i][1]
                     /\ e < layout.espans[p][2] - layout.espans[p][1]
                  THEN cell = PayloadCell(layout.espans[p][1] + e)
                  ELSE cell.m

\* C26: the decoding of a gather index is the inverse of row-major
\* flattening for any number of compressed axes: for sizes s and every
\* gather index g below the product of s, the coordinates c decoded for g
\* have 0 <= c_k < s_k and the sum of c_k * product(s[k+1:]) is g; with
\* one compressed axis the coordinate is g itself.
C26_GatherDecodeInverse ==
    (nreads > 0 /\ ca.compression.type = "gathered") =>
        \A i \in DOMAIN ca.compression.indices :
            LET g == ca.compression.indices[i]
                d == GatherDecode(ca, g)
            IN  /\ d.ok
                /\ Len(d.xxx) = Len(ca.shape)
                /\ \A k \in DOMAIN d.xxx : d.xxx[k] \in 0..(ca.shape[k] - 1)
                /\ Flat(d.xxx, ca.shape) = g

\* The compression types CompressedArray.__getitem__ knows.
KnownTypes == {"gathered", "DSG_contiguous", "DSG_indexed", "DSG_indexed_contiguous"}

\* C16: a read of a CompressedArray whose compression type is none of the
\* four known ones fails, whatever the indices (the wildcard included),
\* with the error of an unsupported compression (ValueError "Unkown
\* compression type") and returns no array.
C16_UnsupportedCompression ==
    (nreads > 0 /\ ca.compression.type \notin KnownTypes) =>
        /\ ~rd.ok
        /\ rd.err = "ValueError"
        /\ rd.arr = NoArray

\* A wildcard read and a read with one entry per axis have both been made
\* on a CompressedArray of an unknown compression type.
C16_Witness ==
    /\ nreads = 2
    /\ nfailed = 2
    /\ ca.compression.type = "other"
    /\ ~ridx.ellipsis
    /\ Len(ridx.entries) = Len(ca.shape)

\* The compression names elements the compressed array does not have.
ExceedsPayload ==
    LET c == ca.compression
        n == Len(heap[ca.array.buf])
    IN  \/ c.type = "gathered" /\ Len(c.indices) > n
        \/ c.type \in {"DSG_contiguous", "DSG_indexed_contiguous"}
              /\ c.c_element_indices.stop[1] > n
        \/ c.type = "DSG_indexed"
              /\ \E j \in DOMAIN c.i_element_indices : c.i_element_indices[j] >= n

\* C17: a read of a CompressedArray whose compression implies sizes that
\* disagree with the compressed array fails (with a shape mismatch) and
\* returns no truncated or wrongly placed buffer: when the compression
\* names elements beyond the end of the compressed array, the read fails.
C17_ShapeMismatchReported ==
    (nreads > 0 /\ ExceedsPayload) => ~rd.ok

\* The shape a read with the indices ridx asks for.
RequestedShape ==
    IF ridx.ellipsis THEN ca.shape
    ELSE [k \in 1..Len(ca.shape) |->
             Len(EntryPositions(ridx.entries[k], ca.shape[k]))]

\* What a caller sees of the outcome r of a read, in the heap h.
View(h, r) ==
    [ok |-> r.ok, err |-> r.err,
     shape |-> IF r.ok THEN r.arr.shape ELSE <<>>,
     cells |-> IF r.ok THEN Cells(h, r.arr) ELSE <<>>]

\* The shape, values and mask of a result as the call left them.
ViewOf(r) == View(r.heap, Outcome(r))

\* The read ca[ridx] made on the object as constructed, with no call before.
FreshRead == CompressedGetItem(<<heap[ca.array.buf]>>, ca, ridx)

WholeRead == CompressedGetItem(<<heap[ca.array.buf]>>, ca, Ellipsis)

\* What get_subspace extracts with the indices from the outcome w of the
\* wildcard read; the failure of w when it failed.
ExtractOfWhole(w, indices) ==
    IF w.ok THEN ViewOf(get_subspace(w.heap, w.arr, indices, TRUE)) ELSE ViewOf(w)

\* C27: for a CompressedArray of a known compression type and indices with
\* one slice or integer sequence per axis, the read with the indices gives
\* what get_subspace extracts with them from the wildcard read (and fails
\* as the wildcard read fails); the wildcard read returns the whole
\* uncompressed array in the shape of the CompressedArray.
C27_ReadIsExtractOfWhole ==
    (nreads > 0 /\ ca.compression.type \in KnownTypes) =>
        /\ (~ridx.ellipsis /\ parse_indices(ca.shape, ridx).ok) =>
               View(heap, rd) = ExtractOfWhole(WholeRead, ridx)
        /\ (ridx.ellipsis /\ rd.ok) =>
               /\ rd.arr.shape = ca.shape
               /\ Len(rd.arr.offs) = Prod(ca.shape)

\* A read with reversed slices and an integer sequence has returned part of
\* a ragged contiguous array, some of it not masked.
C27_Witness ==
    /\ nreads > 0
    /\ ca.compression.type = "DSG_contiguous"
    /\ ~ridx.ellipsis
    /\ rd.ok
    /\ rd.arr.shape # ca.shape
    /\ \E c \in 1..Len(rd.arr.offs) : ~heap[rd.arr.buf][rd.arr.offs[c]].m

\* C30: a read of a CompressedArray writes to nothing but a newly
\* allocated buffer: after any reads, and any writes of the caller to the
\* arrays returned, the compressed array, the compression and the shape
\* are as constructed; an array returned is in a buffer of its own, other
\* than the compressed array's; and a read made after the caller wrote
\* over an earlier result gives what it gives on the object as constructed.
C30_ReadsWriteFreshBuffer ==
    /\ heap[ca.array.buf] = Payload(Len(heap[ca.array.buf]))
    /\ ca = CompressedArray(PayloadArray(Len(heap[ca.array.buf])), layout.sizes,
                            ca.compression)
    /\ (nreads > 0 /\ rd.ok) =>
          /\ rd.arr.buf \in DOMAIN heap
          /\ rd.arr.buf > ca.array.buf
    /\ (nreads > 0 /\ ~Overwritten) => View(heap, rd) = ViewOf(FreshRead)

\* A read has returned an array, part of it not masked, after the caller
\* wrote over the array an earlier read returned.
C30_Witness ==
    /\ written
    /\ nreads = 2
    /\ rd.ok
    /\ ~Overwritten
    /\ \E c \in 1..Len(rd.arr.offs) : ~heap[rd.arr.buf][rd.arr.offs[c]].m

\* C20: the structure of a CompressedArray never changes: after any reads,
\* copies and closes its shape is the shape it was constructed with, ndim
\* is the length of the shape and size the product of its entries.
C20_StructureFixed ==
    /\ ca.shape = layout.sizes
    /\ ca.ndim = Len(ca.shape)
    /\ ca.size = Prod(ca.shape)

\* Reads, one of which failed, have been made on an array of three axes.
C20_Witness ==
    /\ nreads = MaxReads
    /\ nfailed = 1
    /\ Len(ca.shape) = 3

----------------------------------------------------------------------------
(* NumpyArray.__getitem__ and NetCDFFileArray.__getitem__ *)

MaxFileReads == 2   \* __getitem__ calls made on one NumpyArray or NetCDFFileArray

\* The variables of the netCDF file the model reads: "tas", of shape (2, 3)
\* and netCDF ID 0, in buffer 1; "pr", a scalar of netCDF ID 1, in buffer 2;
\* "station", two names of three characters each, of netCDF ID 2, in
\* buffer 3.  kind is the kind of the dtype: "f" for numbers, "S" for text.
NcVariables ==
    <<[name |-> "tas", varid |-> 0, kind |-> "f",
       data |-> Array(<<2, 3>>, 1, [q \in 1..6 |-> q], FALSE)],
      [name |-> "pr", varid |-> 1, kind |-> "f",
       data |-> Array(<<>>, 2, <<1>>, FALSE)],
      [name |-> "station", varid |-> 2, kind |-> "S",
       data |-> Array(<<2, 3>>, 3, [q \in 1..6 |-> q], FALSE)]>>

\* A character is its code: 0 is the empty character that pads a name,
\* 32 the space.  The names stored are "ab" and " ".
NcHeap ==
    <<[p \in 1..6 |-> Cell(10 * p, FALSE)],
      <<Cell(70, FALSE)>>,
      <<Cell(97, FALSE), Cell(98, FALSE), Cell(0, FALSE),
        Cell(32, FALSE), Cell(0, FALSE), Cell(0, FALSE)>>>>

\* value[indices] on a netCDF4 variable: the values are read into a new
\* array.  Entries missing at the end count as slice(None), an entry too
\* many is an IndexError, an integer entry removes its axis, and the
\* entries select independently along their axes.  A scalar variable is
\* read as an array of shape (1,).
NcVariableGetItem(h, v, indices) ==
    LET data == v.data
        n    == Len(data.shape)
    IN  IF indices.ellipsis
        THEN Alloc(h, IF n = 0 THEN <<1>> ELSE data.shape, Cells(h, data), data.isMA)
        ELSE IF Len(indices.entries) > n THEN Err(h, NoArray, "IndexError")
        ELSE LET ent  == [k \in 1..n |->
                            IF k <= Len(indices.entries) THEN indices.entries[k]
                            ELSE SliceNone]
                 pos  == [k \in 1..n |-> EntryPositions(ent[k], data.shape[k])]
                 Kept(k) == ent[k].kind # "int"
                 axes == SelectSeq([k \in 1..n |-> k], Kept)
                 offs == SelectOffs(data, pos)
             IN  Alloc(h,
                       IF n = 0 THEN <<1>> ELSE [j \in 1..Len(axes) |-> Len(pos[axes[j]])],
                       [q \in 1..Len(offs) |-> h[data.buf][offs[q]]],
                       data.isMA)

\* array.squeeze(): the axes of size one are removed; the data are shared.
squeeze(a) ==
    LET Wide(x) == x # 1
    IN  Array(SelectSeq(a.shape, Wide), a.buf, a.offs, a.isMA)

\* The local variable array has not been assigned.
Unbound(h) == [ok |-> TRUE, err |-> "unbound", heap |-> h, arr |-> NoArray]

\* Get the variable by name, else by netCDF ID.  A name the file does not
\* have is a KeyError of nc.variables; an ID no variable has ends the loop
\* without any assignment to array.
LocateVariable(h, self, indices) ==
    IF self.ncvar # <<>>
    THEN IF \E i \in DOMAIN NcVariables : NcVariables[i].name = self.ncvar[1]
         THEN NcVariableGetItem(h,
                  NcVariables[CHOOSE i \in DOMAIN NcVariables :
                                 NcVariables[i].name = self.ncvar[1]], indices)
         ELSE Err(h, NoArray, "KeyError")
    ELSE IF self.varid = <<>> THEN Err(h, NoArray, "AttributeError")
    ELSE IF \E i \in DOMAIN NcVariables : NcVariables[i].varid = self.varid[1]
         THEN NcVariableGetItem(h,
                  NcVariables[CHOOSE i \in DOMAIN NcVariables :
                                 NcVariables[i].varid = self.varid[1]], indices)
         ELSE Unbound(h)

\* The variable an object names, by name and else by netCDF ID: its place in
\* NcVariables, or 0.
Resolved(self) ==
    IF self.ncvar # <<>>
    THEN IF \E i \in DOMAIN NcVariables : NcVariables[i].name = self.ncvar[1]
         THEN CHOOSE i \in DOMAIN NcVariables : NcVariables[i].name = self.ncvar[1]
         ELSE 0
    ELSE IF \E i \in DOMAIN NcVariables : NcVariables[i].varid = self.varid[1]
         THEN CHOOSE i \in DOMAIN NcVariables : NcVariables[i].varid = self.varid[1]
         ELSE 0

\* The lines of NetCDFFileArray.__getitem__ up to the collapse of text,
\* once open() has returned the handle: the values as read from the file.
RawRead(h, self, indices) ==
    LET g == LocateVariable(h, self, indices)
    IN  IF ~g.ok THEN g
        ELSE IF g.err = "unbound" THEN Err(h, NoArray, "UnboundLocalError")
        ELSE IF self.ndim = 0 THEN Res(g.heap, squeeze(g.arr))
        ELSE Res(g.heap, g.arr)

\* array.shape[0:-1]
Front(s) == SubSeq(s, 1, Len(s) - 1)

\* array.dtype.kind == 'S' for the array read from the variable the
\* object names.
IsText(self) == Resolved(self) # 0 /\ NcVariables[Resolved(self)].kind = "S"

\* The collapse of the trailing axis of text read in heap h as r: its
\* first line calls numpy_ma_resize, a name the module never binds.  The
\* objects have no attribute gathered or ragged, so both count as 0.
StringCollapse(h, self, r) ==
    IF r.ok /\ IsText(self) /\ Len(r.arr.shape) > self.ndim - 0 - 0
    THEN Err(h, NoArray, "NameError")
    ELSE r

\* NetCDFFileArray.__getitem__ once open() has returned the handle.
NetCDFGetItem(h, self, indices) == StringCollapse(h, self, RawRead(h, self, indices))

\* The lines of NumpyArray.__getitem__ after the subspace r is computed in
\* heap h: numpy.ma.isMA is called through a name that is not bound.
SetFillValue(h, r) == IF r.ok THEN Err(h, NoArray, "NameError") ELSE r

\* NumpyArray.__getitem__: the subspace is computed, then numpy.ma.isMA is
\* called through the name numpy, which the module never binds, and the
\* subspace is dropped with the frame; the method has no return statement.
NumpyArrayGetItem(h, self, indices) ==
    LET p == parse_indices(self.array.shape, indices)
    IN  IF ~p.ok THEN Err(h, NoArray, p.err)
        ELSE SetFillValue(h, get_subspace(h, self.array, p.indices, TRUE))

\* NumpyArray.__init__
NumpyArrayInit(array) ==
    [class |-> "NumpyArray", array |-> array, ncvar |-> <<>>, varid |-> <<>>,
     ndim |-> Len(array.shape), shape |-> array.shape]

\* NetCDFFileArray(ncvar=..., varid=..., ndim=..., shape=...)
NetCDFFileArrayInit(ncvar, varid, shape) ==
    [class |-> "NetCDFFileArray", array |-> NoArray, ncvar |-> ncvar,
     varid |-> varid, ndim |-> Len(shape), shape |-> shape]

\* The file arrays the model reads: named by a name the file has or lacks,
\* by an ID the file has or lacks, or by both; shape and ndim are those of
\* the variable named, for text also those without the axis of the
\* characters, and those of a variable of numbers when none is named.
NetCDFObjects ==
    {o \in {NetCDFFileArrayInit(ncvar, varid, shape) :
               ncvar \in {<<>>, <<"tas">>, <<"pr">>, <<"station">>, <<"zz">>},
               varid \in {<<>>, <<0>>, <<1>>, <<2>>, <<7>>},
               shape \in {<<2, 3>>, <<2>>, <<>>}} :
        /\ o.ncvar # <<>> \/ o.varid # <<>>
        /\ Resolved(o) # 0 =>
              \/ o.shape = NcVariables[Resolved(o)].data.shape
              \/ /\ IsText(o)
                 /\ o.shape = Front(NcVariables[Resolved(o)].data.shape)
        /\ Resolved(o) = 0 => o.shape # <<2>>}

\* The indices tried on an array of the given shape: the wildcard, slices
\* and an integer sequence with one entry per axis, one entry too few, one
\* too many, and an integer in place of the first entry.
FileReadIndices(shape) ==
    LET n == Len(shape)
    IN  {Ellipsis, Index([k \in 1..(n + 1) |-> SliceNone])}
        \cup (IF n = 0 THEN {}
              ELSE {Index([k \in 1..n |-> Slice(<<>>, <<>>, <<-1>>)]),
                    Index([k \in 1..n |-> IF k = 1 THEN List(<<1, 0>>)
                                          ELSE Slice(<<1>>, <<>>, <<>>)]),
                    Index([k \in 1..(n - 1) |-> SliceNone]),
                    Index([k \in 1..n |-> IF k = 1 THEN IntEntry(0) ELSE SliceNone])})

InitArrays ==
    /\ \/ \E shape \in {<<>>, <<3>>, <<2, 2>>}, mk \in {"plain", "alternate"} :
             /\ heap = <<InitCells(Prod(shape), mk)>>
             /\ fobj = NumpyArrayInit(
                          Array(shape, 1, [q \in 1..Prod(shape) |-> q], mk # "plain"))
       \/ /\ heap = NcHeap
          /\ fobj \in NetCDFObjects
    /\ fidx = Ellipsis
    /\ fout = Outcome(Err(<<>>, NoArray, ""))
    /\ freads = 0
    /\ IdleA
    /\ IdleB
    /\ IdleC
    /\ IdleE
    /\ IdleF

\* fout = fobj[indices] for a NumpyArray
ReadNumpy ==
    /\ fobj.class = "NumpyArray"
    /\ freads < MaxFileReads
    /\ \E indices \in FileReadIndices(fobj.shape) :
          LET r == NumpyArrayGetItem(heap, fobj, indices)
          IN  /\ fidx' = indices
              /\ fout' = Outcome(r)
              /\ heap' = r.heap
    /\ freads' = freads + 1
    /\ UNCHANGED fobj
    /\ UNCHANGED varsA
    /\ UNCHANGED varsB
    /\ UNCHANGED varsC
    /\ UNCHANGED varsE
    /\ UNCHANGED varsF

\* fout = fobj[indices] for a NetCDFFileArray
ReadNetCDF ==
    /\ fobj.class = "NetCDFFileArray"
    /\ freads < MaxFileReads
    /\ \E indices \in FileReadIndices(fobj.shape) :
          LET r == NetCDFGetItem(heap, fobj, indices)
          IN  /\ fidx' = indices
              /\ fout' = Outcome(r)
              /\ heap' = r.heap
    /\ freads' = freads + 1
    /\ UNCHANGED fobj
    /\ UNCHANGED varsA
    /\ UNCHANGED varsB
    /\ UNCHANGED varsC
    /\ UNCHANGED varsE
    /\ UNCHANGED varsF

NextArrays == ReadNumpy \/ ReadNetCDF

SpecArrays == InitArrays /\ [][NextArrays]_vars

----------------------------------------------------------------------------
(* Properties of reads of a NumpyArray and of a NetCDFFileArray *)

\* The exception by which the code reports a variable the file lacks.
VariableNotFound == "KeyError"

\* C14: a read of a NetCDFFileArray whose variable name is absent from the
\* file, or whose netCDF ID no variable of the file has, fails with the
\* error of a variable not found and returns no array.
C14_VariableNotFound ==
    (freads > 0 /\ fobj.class = "NetCDFFileArray" /\ Resolved(fobj) = 0) =>
        /\ ~fout.ok
        /\ fout.err = VariableNotFound
        /\ fout.arr = NoArray

\* The indices are neither the wildcard nor one slice or integer sequence
\* per axis.
Malformed(shape, indices) ==
    /\ ~indices.ellipsis
    /\ \/ Len(indices.entries) # Len(shape)
       \/ \E k \in DOMAIN indices.entries :
             indices.entries[k].kind \notin {"slice", "list"}

\* C15: a read whose indices are not the wildcard and have more or fewer
\* entries than the array has axes, or an entry that is neither a slice
\* nor an integer sequence, fails and returns no array, on a NumpyArray as
\* on a NetCDFFileArray.
C15_InvalidIndex ==
    (freads > 0 /\ Malformed(fobj.shape, fidx)) =>
        /\ ~fout.ok
        /\ fout.arr = NoArray

\* The subspace Array.get_subspace extracts from the resident array.
Extracted == get_subspace(<<heap[fobj.array.buf]>>, fobj.array, fidx, TRUE)

\* C19: a read of a NumpyArray with well-formed indices returns, as an
\* array of its own, the subspace get_subspace extracts from the resident
\* array: the same shape, values and mask.
C19_NumpyArrayRead ==
    (freads > 0 /\ fobj.class = "NumpyArray" /\ ~Malformed(fobj.shape, fidx)) =>
        /\ fout.ok
        /\ fout.arr.buf # fobj.array.buf
        /\ View(heap, fout) = ViewOf(Extracted)

\* ''.join(x): the characters of a row without the empty ones.
Join(x) == SelectSeq(x, LAMBDA c : c # 0)

\* str.rstrip(): the text without the spaces at its end.
RECURSIVE rstrip(_)
rstrip(s) == IF s # <<>> /\ s[Len(s)] = 32 THEN rstrip(Front(s)) ELSE s

\* The text of row q of the values read as raw, whose last axis holds the
\* characters.
RowText(raw, q) ==
    LET strlen == raw.shape[Len(raw.shape)]
    IN  rstrip(Join([c \in 1..strlen |-> raw.cells[(q - 1) * strlen + c].v]))

\* What the read has to return, given the values raw as read from the
\* file: text with an axis more than declared is collapsed, anything else
\* is returned as read.
C21_Expected(raw) ==
    IF IsText(fobj) /\ Len(raw.shape) = fobj.ndim + 1
    THEN /\ fout.ok
         /\ fout.arr.shape = Front(raw.shape)
         /\ \A q \in 1..Prod(Front(raw.shape)) :
               IF RowText(raw, q) = <<>>
               THEN View(heap, fout).cells[q].m
               ELSE /\ ~View(heap, fout).cells[q].m
                    /\ View(heap, fout).cells[q].v = RowText(raw, q)
    ELSE (~IsText(fobj) \/ Len(raw.shape) <= fobj.ndim) =>
            /\ fout.ok
            /\ View(heap, fout) = raw

\* C21: a read of a NetCDFFileArray that yields text with one more
\* trailing axis than the declared rank returns an array with one axis
\* fewer, whose element at every outer position is the concatenation of
\* the characters there without trailing padding, masked when that is
\* empty; a read that yields numbers, or text of no more axes than
\* declared, returns the values as read.
C21_TextCollapse ==
    (freads > 0 /\ fobj.class = "NetCDFFileArray" /\ RawRead(heap, fobj, fidx).ok) =>
        C21_Expected(ViewOf(RawRead(heap, fobj, fidx)))

----------------------------------------------------------------------------
(* File-backed arrays and the cache of file handles *)

MaxWorkers == 2   \* parallel workers calling open, close and __getitem__
MaxArrays == 2    \* array objects made
MaxCalls == 3     \* calls of open, close and __getitem__ begun

Workers == 1..MaxWorkers

\* File names as sequences of path components, as a caller may spell them.
RawNames ==
    {<<"a.nc">>, <<".", "a.nc">>, <<"/", "cwd", "a.nc">>, <<"b.nc">>}

\* abspath(f): the name made absolute against the working directory, with
\* its "." components removed.
abspath(f) ==
    LET full == IF f[1] = "/" THEN f ELSE <<"/", "cwd">> \o f
        NotDot(x) == x # "."
    IN  SelectSeq(full, NotDot)

\* FileArray.__init__ without the call of abspath.
FileArrayInitRaw(file) ==
    [kind |-> "file", file |-> file, array |-> 0]

\* FileArray.__init__(file=...): self.file = abspath(f)
FileArrayInit(file) ==
    [kind |-> "file", file |-> abspath(file), array |-> 0]

\* CompressedArray.__init__ around the array object `array` (0: a numpy
\* array in memory).
CompressedArrayInit(array) ==
    [kind |-> "compressed", file |-> <<>>, array |-> array]

\* FileArray.copy, CompressedArray.copy: new.__dict__ = self.__dict__.copy()
CopyOf(obj) == [kind |-> obj.kind, file |-> obj.file, array |-> obj.array]

\* CompressedArray.on_disk
on_disk(obj) == obj.array # 0

\* The names a file attribute can hold, and so the keys of the cache.
FileKeys == RawNames \cup {abspath(f) : f \in RawNames}

NumHandles == MaxWorkers + Cardinality(FileKeys)

FreeHandle == [st |-> "free", file |-> <<>>, mode |-> "", by |-> 0]

IdleWorker ==
    [pc |-> "idle", op |-> "none", obj |-> 0, arr |-> 0, nc |-> 0, res |-> "none"]

\* A handle no cache entry and no worker refers to is deallocated (and
\* with it closed).
Collect(hs, c, w) ==
    [h \in DOMAIN hs |->
        IF (\E f \in DOMAIN c : c[f] = h) \/ (\E x \in DOMAIN w : w[x].nc = h)
        THEN hs[h] ELSE FreeHandle]

\* The file array whose file a call on object a works on: the object
\* itself, or the compressed array of a CompressedArray.
Target(a) == IF arrays[a].kind = "file" THEN a ELSE arrays[a].array

\* The file name a worker's call passes to the cache.
FileOf(w) == arrays[wk[w].arr].file

\* A cache that takes no lock.
CanAcquireAlways(f) == TRUE

\* The lock of a file name can be taken without waiting.
CanAcquire(f) == lock[f] = 0

InitFiles ==
    /\ \E f \in RawNames : arrays = <<FileArrayInit(f)>>
    /\ cache = [f \in FileKeys |-> 0]
    /\ handles = [h \in 1..NumHandles |-> FreeHandle]
    /\ lock = [f \in FileKeys |-> 0]
    /\ calls = 0
    /\ wk = [w \in Workers |-> IdleWorker]
    /\ heap = <<>>
    /\ IdleA
    /\ IdleB
    /\ IdleD
    /\ IdleE
    /\ IdleF

Quiet ==
    UNCHANGED <<heap, src, orig, idx, cpy, out, pc, ca, layout, ridx, rd, nreads,
                nfailed, written, fobj, fidx, fout, freads, store, objs, hist,
                lastcall, nops, dom, cmp>>

\* A constructor that opens its file at once.
ConstructOpening ==
    /\ Len(arrays) < MaxArrays
    /\ \E f \in RawNames :
          LET h == SetMin({x \in DOMAIN handles : handles[x].st = "free"})
          IN  /\ arrays' = Append(arrays, FileArrayInit(f))
              /\ IF cache[abspath(f)] = 0
                 THEN /\ cache' = [cache EXCEPT ![abspath(f)] = h]
                      /\ handles' = [handles EXCEPT ![h] =
                                       [st |-> "open", file |-> abspath(f),
                                        mode |-> "r", by |-> 0]]
                 ELSE UNCHANGED <<cache, handles>>
    /\ UNCHANGED <<lock, calls, wk>>
    /\ Quiet

\* NetCDFFileArray(file=f, ...): the attributes are stored; no file is opened.
Construct ==
    /\ Len(arrays) < MaxArrays
    /\ \E f \in RawNames : arrays' = Append(arrays, FileArrayInit(f))
    /\ UNCHANGED <<cache, handles, lock, calls, wk>>
    /\ Quiet

\* CompressedArray(array, shape, compression) around a file array, or
\* around a numpy array in memory
Wrap ==
    /\ Len(arrays) < MaxArrays
    /\ \E a \in {0} \cup {b \in DOMAIN arrays : arrays[b].kind = "file"} :
          arrays' = Append(arrays, CompressedArrayInit(a))
    /\ UNCHANGED <<cache, handles, lock, calls, wk>>
    /\ Quiet

\* An object the program no longer refers to.
Dropped == [kind |-> "dropped", file |-> <<>>, array |-> 0]

\* The objects the program still refers to.
Living == {a \in DOMAIN arrays : arrays[a].kind # "dropped"}

\* a.copy()
Copy ==
    /\ Len(arrays) < MaxArrays
    /\ \E a \in Living : arrays' = Append(arrays, CopyOf(arrays[a]))
    /\ UNCHANGED <<cache, handles, lock, calls, wk>>
    /\ Quiet

\* Worker w calls a.open() or a[indices] on a file array or on a
\* CompressedArray whose compressed array is on disk: both start with
\* _open_netcdf_file(self.file, 'r').
CallOpenOrRead(w) ==
    /\ wk[w].pc = "idle"
    /\ calls < MaxCalls
    /\ calls' = calls + 1
    /\ \E a \in DOMAIN arrays, op \in {"open", "read"} :
          /\ arrays[a].kind = "file" \/ (op = "read" /\ on_disk(arrays[a]))
          /\ wk' = [wk EXCEPT ![w] =
                       [pc |-> "acquire", op |-> op, obj |-> a, arr |-> Target(a),
                        nc |-> 0, res |-> "none"]]
    /\ UNCHANGED <<arrays, cache, handles, lock>>
    /\ Quiet

\* A CompressedArray.close that calls self.array.close() without asking
\* on_disk(): a numpy array has no close method.
CallCloseUnguarded(w) ==
    /\ wk[w].pc = "idle"
    /\ calls < MaxCalls
    /\ calls' = calls + 1
    /\ \E a \in Living :
          IF arrays[a].kind = "file" \/ on_disk(arrays[a])
          THEN wk' = [wk EXCEPT ![w] =
                        [pc |-> "acquire", op |-> "close", obj |-> a,
                         arr |-> Target(a), nc |-> 0, res |-> "none"]]
          ELSE wk' = [wk EXCEPT ![w] = [IdleWorker EXCEPT !.res = "error"]]
    /\ UNCHANGED <<arrays, cache, handles, lock>>
    /\ Quiet

\* Worker w calls a.close(): NetCDFFileArray.close, or CompressedArray.close
\* which closes its compressed array when that is on disk and does nothing
\* otherwise.  unique() is not consulted.
CallClose(w) ==
    /\ wk[w].pc = "idle"
    /\ calls < MaxCalls
    /\ calls' = calls + 1
    /\ \E a \in Living :
          IF arrays[a].kind = "file" \/ on_disk(arrays[a])
          THEN wk' = [wk EXCEPT ![w] =
                        [pc |-> "acquire", op |-> "close", obj |-> a,
                         arr |-> Target(a), nc |-> 0, res |-> "none"]]
          ELSE wk' = [wk EXCEPT ![w] = [IdleWorker EXCEPT !.res = "ok"]]
    /\ UNCHANGED <<arrays, cache, handles, lock>>
    /\ Quiet

\* Handle acquisition and release begin by taking the lock of the file name.
Acquire(w) ==
    /\ wk[w].pc = "acquire"
    /\ CanAcquire(FileOf(w))
    /\ lock' = [lock EXCEPT ![FileOf(w)] = w]
    /\ wk' = [wk EXCEPT ![w].pc = IF wk[w].op = "close" THEN "release" ELSE "lookup"]
    /\ UNCHANGED <<arrays, cache, handles, calls>>
    /\ Quiet

\* What follows _open_netcdf_file in the caller: open() returns the handle,
\* __getitem__ goes on to read the variable through it.
AfterOpen(w, h) ==
    IF wk[w].op = "open"
    THEN [IdleWorker EXCEPT !.res = "ok"]
    ELSE [wk[w] EXCEPT !.pc = "read_var", !.nc = h]

Unlock(w) ==
    [lock EXCEPT ![FileOf(w)] = IF @ = w THEN 0 ELSE @]

\* _open_netcdf_file: the file name is looked up in the cache; a cached
\* handle is returned as it is.
Lookup(w) ==
    /\ wk[w].pc = "lookup"
    /\ IF cache[FileOf(w)] # 0
       THEN /\ wk' = [wk EXCEPT ![w] = AfterOpen(w, cache[FileOf(w)])]
            /\ lock' = Unlock(w)
       ELSE /\ wk' = [wk EXCEPT ![w].pc = "create"]
            /\ lock' = lock
    /\ UNCHANGED <<arrays, cache, handles, calls>>
    /\ Quiet

\* _open_netcdf_file: the file is opened read-only and the handle cached.
Create(w) ==
    /\ wk[w].pc = "create"
    /\ LET h   == SetMin({x \in DOMAIN handles : handles[x].st = "free"})
           wk1 == [wk EXCEPT ![w] = AfterOpen(w, h)]
           c1  == [cache EXCEPT ![FileOf(w)] = h]
       IN  /\ wk' = wk1
           /\ cache' = c1
           /\ handles' = Collect([handles EXCEPT ![h] =
                                    [st |-> "open", file |-> FileOf(w), mode |-> "r", by |-> 0]],
                                 c1, wk1)
    /\ lock' = Unlock(w)
    /\ UNCHANGED <<arrays, calls>>
    /\ Quiet

\* NetCDFFileArray.__getitem__ after open(): the variable is read through
\* the handle, which fails when the handle has been closed meanwhile.
ReadVar(w) ==
    /\ wk[w].pc = "read_var"
    /\ LET wk1 == [wk EXCEPT ![w] =
                     [IdleWorker EXCEPT !.res = IF handles[wk[w].nc].st = "open"
                                                THEN "ok" ELSE "error"]]
       IN  /\ wk' = wk1
           /\ handles' = Collect(handles, cache, wk1)
    /\ UNCHANGED <<arrays, cache, lock, calls>>
    /\ Quiet

\* _close_netcdf_file(self.file): "Close the file containing the data
\* array.  If the file is not open then no action is taken."
Release(w) ==
    /\ wk[w].pc = "release"
    /\ LET h   == cache[FileOf(w)]
           wk1 == [wk EXCEPT ![w] = [IdleWorker EXCEPT !.res = "ok"]]
           c1  == [cache EXCEPT ![FileOf(w)] = 0]
       IN  /\ wk' = wk1
           /\ cache' = c1
           /\ handles' =
                 IF h = 0 THEN handles
                 ELSE Collect([handles EXCEPT ![h] =
                                         [@ EXCEPT !.st = "closed", !.by = wk[w].obj]],
                                   c1, wk1)
    /\ lock' = Unlock(w)
    /\ UNCHANGED <<arrays, calls>>
    /\ Quiet

NextFiles ==
    \/ Construct
    \/ Wrap
    \/ Copy
    \/ \E w \in Workers :
          \/ CallOpenOrRead(w)
          \/ CallClose(w)
          \/ Acquire(w)
          \/ Lookup(w)
          \/ Create(w)
          \/ ReadVar(w)
          \/ Release(w)

SpecFiles == InitFiles /\ [][NextFiles]_vars

\* del a: the program gives up its last reference to an object no call is
\* working on and no CompressedArray holds.  No method of the object runs:
\* the classes define no __del__, and open() and close() hand the cache
\* the file name only.
Drop ==
    /\ \E a \in Living :
          /\ \A w \in Workers : wk[w].obj # a /\ wk[w].arr # a
          /\ \A b \in Living : arrays[b].array # a
          /\ arrays' = [arrays EXCEPT ![a] = Dropped]
    /\ UNCHANGED <<cache, handles, lock, calls, wk>>
    /\ Quiet

NextLifecycle == NextFiles \/ Drop

SpecLifecycle == InitFiles /\ [][NextLifecycle]_vars

----------------------------------------------------------------------------
(* Properties of the file-handle cache *)

\* The objects that are aliases of one file: they work on the same file name.
FileOfObject(a) ==
    IF arrays[a].kind = "file" THEN arrays[a].file
    ELSE IF on_disk(arrays[a]) THEN arrays[arrays[a].array].file
    ELSE <<>>

OpenHandles(path) ==
    {h \in DOMAIN handles :
        handles[h].st = "open" /\ abspath(handles[h].file) = path}

C9_Inv ==
    /\ \A f \in DOMAIN cache : Cardinality(OpenHandles(abspath(f))) <= 1
    /\ \A f \in DOMAIN cache :
          cache[f] # 0 =>
             /\ handles[cache[f]].st = "open"
             /\ handles[cache[f]].file = f
             /\ handles[cache[f]].mode = "r"
    /\ \A h \in DOMAIN handles :
          handles[h].st = "open" => cache[handles[h].file] = h

C9_Step ==
    \A w \in DOMAIN wk :
        (wk[w].pc = "lookup" /\ wk'[w] # wk[w]) =>
            IF cache[FileOf(w)] # 0
            THEN /\ handles' = handles
                 /\ cache' = cache
                 /\ wk[w].op = "read" => wk'[w].nc = cache[FileOf(w)]
            ELSE wk'[w].pc = "create"

\* C9: at any time each absolute path has at most one open handle, the
\* cached one, opened read-only; open() on a path whose handle is cached
\* returns that handle and opens nothing, and otherwise goes on to open
\* the file.
C9_OneHandlePerPath == []C9_Inv /\ [][C9_Step]_vars

\* Two different file arrays made for one file are both reading through
\* the one cached handle.
C9_Witness ==
    \E w1, w2 \in DOMAIN wk :
        /\ w1 # w2
        /\ wk[w1].pc = "read_var" /\ wk[w2].pc = "read_var"
        /\ wk[w1].arr # wk[w2].arr
        /\ wk[w1].nc = wk[w2].nc
        /\ cache[FileOf(w1)] = wk[w1].nc
        /\ handles[wk[w1].nc].st = "open"

\* A worker is between taking and giving back the lock of its file name.
InCritical(w) == wk[w].pc \in {"lookup", "create", "release"}

\* C10: handle acquisition and release are mutually exclusive per path: no
\* two workers are at once inside the acquisition or the release of the
\* handle of one absolute path.
C10_MutualExclusion ==
    \A w1, w2 \in DOMAIN wk :
        (w1 # w2 /\ InCritical(w1) /\ InCritical(w2)) =>
            abspath(FileOf(w1)) # abspath(FileOf(w2))

\* One worker is opening a file while another, which wants to release the
\* handle of the same file, waits for the lock.
C10_Witness ==
    \E w1, w2 \in DOMAIN wk :
        /\ w1 # w2
        /\ wk[w1].pc = "create"
        /\ wk[w2].pc = "acquire" /\ wk[w2].op = "close"
        /\ FileOf(w1) = FileOf(w2)
        /\ lock[FileOf(w1)] = w1

\* A step of worker w.
StepOf(w) == wk'[w] # wk[w]

C11_Step ==
    \A w \in DOMAIN wk :
        StepOf(w) =>
            /\ (wk[w].pc = "release" /\ cache[FileOf(w)] = 0) =>
                  /\ cache' = cache
                  /\ handles' = handles
            /\ wk[w].pc = "release" =>
                  /\ cache'[FileOf(w)] = 0
                  /\ wk'[w].pc = "idle" /\ wk'[w].res = "ok"
            /\ (wk[w].pc = "idle" /\ wk'[w].pc = "idle") => wk'[w].res = "ok"
            /\ (wk[w].pc = "lookup" /\ wk[w].op = "read" /\ cache[FileOf(w)] = 0) =>
                  wk'[w].pc = "create"
            /\ (wk[w].pc = "create" /\ wk[w].op = "read") =>
                  /\ wk'[w].pc = "read_var"
                  /\ handles'[wk'[w].nc].st = "open"
                  /\ cache'[FileOf(w)] = wk'[w].nc
            /\ (wk[w].pc = "read_var" /\ handles[wk[w].nc].st = "open") =>
                  wk'[w].res = "ok"

\* C11: close() on an array whose file is not open changes nothing and is
\* never an error, so a second close() leaves the state the first one
\* left; every close() ends without error with no handle cached for the
\* file; a read that finds no handle cached reopens the file and, with its
\* handle open, succeeds.
C11_CloseIdempotent == [][C11_Step]_vars

\* A close() is about to find its file not open, after an earlier call
\* has ended.
C11_Witness ==
    \E w \in DOMAIN wk :
        /\ wk[w].pc = "release"
        /\ cache[FileOf(w)] = 0
        /\ calls >= 2
        /\ \A h \in DOMAIN handles : handles[h].st # "open"

C12_Step ==
    /\ \A f \in DOMAIN cache :
          (cache'[f] # 0 /\ cache'[f] # cache[f]) =>
             \E w \in DOMAIN wk :
                /\ StepOf(w)
                /\ wk[w].pc = "create" /\ wk[w].op \in {"read", "open"}
                /\ FileOf(w) = f
    /\ \A h \in DOMAIN handles :
          (handles[h].st # "open" /\ handles'[h].st = "open") =>
             \E w \in DOMAIN wk :
                /\ StepOf(w)
                /\ wk[w].pc = "create" /\ wk[w].op \in {"read", "open"}
                /\ FileOf(w) = handles'[h].file

\* C12: no handle is open before the first read or open call: while no
\* call has begun, whatever has been constructed, wrapped or copied, no
\* handle is open or cached; and a handle is opened, or cached for a path,
\* only by the step of a read or open call on that path that found no
\* handle cached.
C12_NoHandleBeforeFirstRead ==
    /\ [](calls = 0 =>
            /\ \A h \in DOMAIN handles : handles[h].st = "free"
            /\ \A f \in DOMAIN cache : cache[f] = 0)
    /\ [][C12_Step]_vars

\* The first call, a read on one of two objects made before it, has
\* opened the file.
C12_Witness ==
    \E w \in DOMAIN wk :
        /\ calls = 1
        /\ Len(arrays) = MaxArrays
        /\ wk[w].pc = "read_var"
        /\ handles[wk[w].nc].st = "open"
        /\ cache[FileOf(w)] = wk[w].nc

\* C13: once every array that aliases a path has been closed or dropped,
\* no handle of that path remains open in the cache: a path with a cached
\* handle has a living alias or a call at work on it.
C13_NoHandleWithoutAlias ==
    \A f \in DOMAIN cache :
        cache[f] # 0 =>
            \/ \E a \in Living : FileOfObject(a) = f
            \/ \E w \in DOMAIN wk : wk[w].pc # "idle" /\ FileOf(w) = f

-----------------------------------------------------------------------------
\* Part E. Objects with reference semantics: Container
\* (cfdm/core/abstract/container.py) and the copies of FileArray and
\* CompressedArray (cfdm/data/filearray.py).
\*
\* store is the heap of mutable Python containers, dicts and lists; a value
\* is an atom or a reference to a place of the store.  An object is its
\* class and the dict that holds its state: self._components for a
\* Container, self.__dict__ for an array.

MaxOps == 4     \* calls made on the objects
MaxObjs == 2    \* objects constructed or copied

Atom(a) == [ref |-> FALSE, v |-> 0, a |-> a]

Ref(i) == [ref |-> TRUE, v |-> i, a |-> ""]

None == Atom("None")

PyDict(items) == [kind |-> "dict", items |-> items]

PyList(items) == [kind |-> "list", items |-> items]

\* The places an object of the store refers to.
Refs(o) == {o.items[k].v : k \in {j \in DOMAIN o.items : o.items[j].ref}}

RECURSIVE Closure(_, _, _)
Closure(st, ids, n) ==
    IF n = 0 THEN ids
    ELSE Closure(st, ids \cup UNION {Refs(st[i]) : i \in ids}, n - 1)

\* Everything reachable from a value.
Reach(st, val) == IF val.ref THEN Closure(st, {val.v}, Len(st)) ELSE {}

\* copy.deepcopy(value): every container reachable from the value is
\* duplicated once, and the duplicates refer to each other.
deepcopy(st, val) ==
    LET ids == SortedSeq(Reach(st, val))
        Dup(i) == Len(st) + (CHOOSE j \in 1..Len(ids) : ids[j] = i)
        Moved(x) == IF x.ref THEN Ref(Dup(x.v)) ELSE x
        copies == [j \in 1..Len(ids) |->
                     [kind |-> st[ids[j]].kind,
                      items |-> [k \in DOMAIN st[ids[j]].items |->
                                   Moved(st[ids[j]].items[k])]]]
    IN  [store |-> st \o copies, val |-> Moved(val)]

\* dict.copy(): a new dict holding the same values.
DictCopy(st, d) == [store |-> Append(st, PyDict(st[d].items)), val |-> Ref(Len(st) + 1)]

\* The content of a value, whatever places hold it: the atom, or the kind
\* of container, at the end of every path of keys and positions.
RECURSIVE Paths(_, _, _)
Paths(st, val, path) ==
    IF ~val.ref THEN {<<path, val.a>>}
    ELSE {<<path, st[val.v].kind>>} \cup
         UNION {Paths(st, st[val.v].items[k],
                      Append(path, IF st[val.v].kind = "list" THEN ToString(k) ELSE k)) :
                k \in DOMAIN st[val.v].items}

Content(st, val) == Paths(st, val, <<>>)

\* self._components
Components(st, self) == st[self.dict].items

\* What a call gives back: a value, or an exception and its args.
Returned(val) == [raised |-> FALSE, val |-> val, args |-> <<>>]

Raised(args) == [raised |-> TRUE, val |-> None, args |-> args]

\* An exception instance given as default, and a default that is a value.
ExceptionDefault(args) == [exc |-> TRUE, args |-> args, val |-> None]

ValueDefault(val) == [exc |-> FALSE, args |-> <<>>, val |-> val]

\* "{!r} has no {!r} component".format(self.__class__.__name__, component)
Message(self, component) == <<self.class, " has no ", component, " component">>

\* A _default that returns None where it should raise.
DefaultSilent(self, default, message) == Returned(IF default.exc THEN None ELSE default.val)

\* Container._default
_default(self, default, message) ==
    IF default.exc
    THEN Raised(IF default.args = <<>> THEN <<message>> ELSE default.args)
    ELSE Returned(default.val)

\* Container._has_component
_has_component(st, self, component) == component \in DOMAIN Components(st, self)

\* Container._get_component
_get_component(st, self, component, default) ==
    IF component \in DOMAIN Components(st, self)
    THEN Returned(Components(st, self)[component])
    ELSE _default(self, default, Message(self, component))

\* A _del_component that returns the value and leaves it in place.
DelComponentKeeping(st, self, component, default) ==
    [store |-> st, out |-> _get_component(st, self, component, default)]

\* Container._del_component
_del_component(st, self, component, default) ==
    IF component \in DOMAIN Components(st, self)
    THEN [store |-> [st EXCEPT ![self.dict].items =
                        [k \in DOMAIN @ \ {component} |-> @[k]]],
          out |-> Returned(Components(st, self)[component])]
    ELSE [store |-> st, out |-> _default(self, default, Message(self, component))]

\* Container._set_component
_set_component(st, self, component, value, copy) ==
    LET d == IF copy THEN deepcopy(st, value) ELSE [store |-> st, val |-> value]
    IN  [d.store EXCEPT ![self.dict].items = (component :> d.val) @@ @]

\* Container.__init__(source=None): the new object is the last of the
\* store.
ContainerNew(st) ==
    LET st1 == st \o <<PyDict(<<>>), PyDict(<<>>)>>
        self == [class |-> "Container", dict |-> Len(st) + 1]
    IN  [store |-> _set_component(st1, self, "custom", Ref(Len(st) + 2), FALSE),
         self |-> self]

\* Container.__init__(source): custom = source._get_component('custom', {})
\* and custom = custom.copy().
ContainerFrom(st, source) ==
    LET st1 == Append(st, PyDict(<<>>))
        self == [class |-> source.class, dict |-> Len(st) + 1]
        st2 == Append(st1, PyDict(<<>>))
        custom == _get_component(st2, source, "custom", ValueDefault(Ref(Len(st2)))).val
        c == DictCopy(st2, custom.v)
    IN  [store |-> _set_component(c.store, self, "custom", c.val, FALSE), self |-> self]

\* Container.copy
ContainerCopy(st, self) == ContainerFrom(st, self)

\* The component names and the defaults the calls are made with.
ComponentNames == {"custom", "foo"}

Defaults == {ExceptionDefault(<<>>), ExceptionDefault(<<<<"unset">>>>), ValueDefault(None)}

\* The values a component is set to: an atom, or a container made for
\* the call.
SetValues(component) == IF component = "custom" THEN {"dict"} ELSE {"bar", "99", "list"}

Fresh(st, v) ==
    CASE v = "dict" -> [store |-> Append(st, PyDict(<<>>)), val |-> Ref(Len(st) + 1)]
      [] v = "list" -> [store |-> Append(st, PyList(<<Atom("f")>>)), val |-> Ref(Len(st) + 1)]
      [] OTHER -> [store |-> st, val |-> Atom(v)]

\* The record of a call and of what it gave back.
Call(op, o, component, default, r) ==
    [op |-> op, obj |-> o, key |-> component, raised |-> r.raised,
     val |-> r.val, args |-> r.args, default |-> default]

\* The content of an empty dict.
EmptyContent == {<<<<>>, "dict">>}

QuietE ==
    /\ UNCHANGED heap
    /\ UNCHANGED varsA
    /\ UNCHANGED varsB
    /\ UNCHANGED varsC
    /\ UNCHANGED varsD
    /\ UNCHANGED varsF

Step(op) == nops' = nops + 1 /\ lastcall'.op = op

InitContainer ==
    /\ heap = <<>>
    /\ IdleA
    /\ IdleB
    /\ IdleC
    /\ IdleD
    /\ IdleE
    /\ IdleF

\* f = Container()
NewContainer ==
    /\ nops < MaxOps
    /\ Len(objs) < MaxObjs
    /\ \E r \in {ContainerNew(store)} :
          /\ store' = r.store
          /\ objs' = Append(objs, r.self)
    /\ hist' = Append(hist, [c \in ComponentNames |->
                               IF c = "custom" THEN <<EmptyContent>> ELSE <<>>])
    /\ lastcall' = Call("new", Len(objs) + 1, "", ValueDefault(None), Returned(None))
    /\ nops' = nops + 1
    /\ QuietE

\* g = f.copy()
CopyContainer ==
    /\ nops < MaxOps
    /\ Len(objs) < MaxObjs
    /\ \E o \in DOMAIN objs :
          /\ \E r \in {ContainerCopy(store, objs[o])} :
                /\ store' = r.store
                /\ objs' = Append(objs, r.self)
          /\ hist' = Append(hist, [c \in ComponentNames |->
                                     IF c # "custom" THEN <<>>
                                     ELSE IF hist[o][c] = <<>> THEN <<EmptyContent>>
                                     ELSE hist[o][c]])
          /\ lastcall' = Call("copy", o, "", ValueDefault(None), Returned(None))
    /\ nops' = nops + 1
    /\ QuietE

\* f._set_component(component, value, copy)
SetComponent ==
    /\ nops < MaxOps
    /\ \E o \in DOMAIN objs, component \in ComponentNames, copy \in BOOLEAN :
          \E v \in SetValues(component) :
             \E f \in {Fresh(store, v)} :
                /\ store' = _set_component(f.store, objs[o], component, f.val, copy)
                /\ hist' = [hist EXCEPT ![o][component] = <<Content(f.store, f.val)>>]
                /\ lastcall' = Call("set", o, component, ValueDefault(None), Returned(f.val))
    /\ nops' = nops + 1
    /\ UNCHANGED objs
    /\ QuietE

\* f._del_component(component, default)
DelComponent ==
    /\ nops < MaxOps
    /\ \E o \in DOMAIN objs, component \in ComponentNames, default \in Defaults :
          \E r \in {_del_component(store, objs[o], component, default)} :
             /\ store' = r.store
             /\ hist' = [hist EXCEPT ![o][component] = <<>>]
             /\ lastcall' = Call("del", o, component, default, r.out)
    /\ nops' = nops + 1
    /\ UNCHANGED objs
    /\ QuietE

\* f._get_component(component, default)
GetComponent ==
    /\ nops < MaxOps
    /\ \E o \in DOMAIN objs, component \in ComponentNames, default \in Defaults :
          lastcall' = Call("get", o, component, default,
                           _get_component(store, objs[o], component, default))
    /\ nops' = nops + 1
    /\ UNCHANGED <<store, objs, hist>>
    /\ QuietE

\* f._has_component(component)
HasComponent ==
    /\ nops < MaxOps
    /\ \E o \in DOMAIN objs, component \in ComponentNames :
          lastcall' = Call("has", o, component, ValueDefault(None),
                           Returned(Atom(IF _has_component(store, objs[o], component)
                                         THEN "True" ELSE "False")))
    /\ nops' = nops + 1
    /\ UNCHANGED <<store, objs, hist>>
    /\ QuietE

NextContainer ==
    \/ NewContainer
    \/ CopyContainer
    \/ SetComponent
    \/ DelComponent
    \/ GetComponent
    \/ HasComponent

SpecContainer == InitContainer /\ [][NextContainer]_vars

\* C22: a component is held exactly when the most recent of the set and
\* delete calls on it was a set, and then reading it gives the value last
\* set; deleting a held component gives that value back, leaves the
\* component unset, and leaves every other component of every object as
\* it was.
C22_Held ==
    \A o \in DOMAIN objs, c \in ComponentNames :
        /\ _has_component(store, objs[o], c) <=> hist[o][c] # <<>>
        /\ hist[o][c] # <<>> =>
              /\ ~_get_component(store, objs[o], c, ExceptionDefault(<<>>)).raised
              /\ Content(store, _get_component(store, objs[o], c, ExceptionDefault(<<>>)).val)
                     = hist[o][c][1]

C22_Delete ==
    (Step("del") /\ hist[lastcall'.obj][lastcall'.key] # <<>>) =>
        /\ ~lastcall'.raised
        /\ Content(store', lastcall'.val) = hist[lastcall'.obj][lastcall'.key][1]
        /\ ~_has_component(store', objs'[lastcall'.obj], lastcall'.key)
        /\ \A o \in DOMAIN objs, c \in ComponentNames :
              (o # lastcall'.obj \/ c # lastcall'.key) =>
                 /\ _has_component(store', objs'[o], c) <=> _has_component(store, objs[o], c)
                 /\ _has_component(store, objs[o], c) =>
                       /\ Components(store', objs'[o])[c] = Components(store, objs[o])[c]
                       /\ Content(store', Components(store', objs'[o])[c])
                              = Content(store, Components(store, objs[o])[c])

C22_SetDelHasGet == []C22_Held /\ [][C22_Delete]_vars

\* A component set to a list and then deleted: the call gave the list
\* back and the component is unset, next to one that is still held.
C22_Witness ==
    /\ lastcall.op = "del"
    /\ lastcall.key = "foo"
    /\ ~lastcall.raised
    /\ lastcall.val.ref
    /\ Content(store, lastcall.val) = {<<<<>>, "list">>, <<<<"1">>, "f">>}
    /\ ~_has_component(store, objs[lastcall.obj], "foo")
    /\ _has_component(store, objs[lastcall.obj], "custom")

\* C24: reading or deleting a component that is not set raises the
\* default when the default is an exception, with a message naming the
\* class and the component when the exception was given no arguments, and
\* returns the default otherwise; either way nothing that is stored
\* changes.
C24_Unset ==
    ((Step("get") \/ Step("del")) /\ hist[lastcall'.obj][lastcall'.key] = <<>>) =>
        /\ IF lastcall'.default.exc
           THEN /\ lastcall'.raised
                /\ lastcall'.args =
                      IF lastcall'.default.args = <<>>
                      THEN <<<<objs[lastcall'.obj].class, " has no ", lastcall'.key, " component">>>>
                      ELSE lastcall'.default.args
           ELSE /\ ~lastcall'.raised
                /\ lastcall'.val = lastcall'.default.val
        /\ store' = store
        /\ objs' = objs

C24_UnsetDefault == [][C24_Unset]_vars

\* A second delete of the same component, with a default that is no
\* exception, returned the default.
C24_Witness ==
    /\ lastcall.op = "del"
    /\ lastcall.key = "foo"
    /\ ~lastcall.default.exc
    /\ ~lastcall.raised
    /\ lastcall.val = None
    /\ nops = 4
    /\ hist[lastcall.obj]["foo"] = <<>>
    /\ ~_has_component(store, objs[lastcall.obj], "foo")

\* f._custom
_custom(st, self) == _get_component(st, self, "custom", ExceptionDefault(<<>>)).val

\* The keys and the values written to the custom storage.
CustomKeys == {"feature", "note"}

\* f._custom[key] = [a]
CustomSetItem ==
    /\ nops < MaxOps
    /\ \E o \in DOMAIN objs, key \in CustomKeys, a \in {"f", "h"} :
          /\ store' = [Append(store, PyList(<<Atom(a)>>)) EXCEPT
                          ![_custom(store, objs[o]).v].items = (key :> Ref(Len(store) + 1)) @@ @]
          /\ lastcall' = Call("setitem", o, key, ValueDefault(None), Returned(None))
    /\ nops' = nops + 1
    /\ UNCHANGED <<objs, hist>>
    /\ QuietE

\* f._custom[key][0] = a
CustomSetIndex ==
    /\ nops < MaxOps
    /\ \E o \in DOMAIN objs, key \in CustomKeys, a \in {"g"} :
          /\ key \in DOMAIN store[_custom(store, objs[o]).v].items
          /\ store' = [store EXCEPT
                          ![store[_custom(store, objs[o]).v].items[key].v].items[1] = Atom(a)]
          /\ lastcall' = Call("setindex", o, key, ValueDefault(None), Returned(None))
    /\ nops' = nops + 1
    /\ UNCHANGED <<objs, hist>>
    /\ QuietE

\* del f._custom[key]
CustomDelItem ==
    /\ nops < MaxOps
    /\ \E o \in DOMAIN objs, key \in CustomKeys :
          /\ key \in DOMAIN store[_custom(store, objs[o]).v].items
          /\ store' = [store EXCEPT ![_custom(store, objs[o]).v].items =
                          [k \in DOMAIN @ \ {key} |-> @[k]]]
          /\ lastcall' = Call("delitem", o, key, ValueDefault(None), Returned(None))
    /\ nops' = nops + 1
    /\ UNCHANGED <<objs, hist>>
    /\ QuietE

NextCustom ==
    \/ NewContainer
    \/ CopyContainer
    \/ CustomSetItem
    \/ CustomSetIndex
    \/ CustomDelItem

SpecCustom == InitContainer /\ [][NextCustom]_vars

\* C23: a change made through one object's custom storage, the setting or
\* deletion of a key or a write inside a value it holds, leaves the
\* content of every other object's custom storage as it was.
C23_Step ==
    ((Step("setitem") \/ Step("setindex") \/ Step("delitem")) =>
        \A p \in DOMAIN objs \ {lastcall'.obj} :
            Content(store', _custom(store', objs'[p])) = Content(store, _custom(store, objs[p])))

C23_CustomIndependent == [][C23_Step]_vars

\* The file name as the one string the object holds.
PathName(p) ==
    CASE p = <<"/", "cwd", "file.nc">> -> "/cwd/file.nc"
      [] p = <<"/", "data", "other.nc">> -> "/data/other.nc"

\* FileArray.__init__(**kwargs), by way of NetCDFFileArray
FileArrayNew(st, file, ncvar, shape) ==
    [store |-> Append(st, PyDict([k \in {"file", "ncvar", "shape"} |->
                                    CASE k = "file" -> Atom(PathName(abspath(file)))
                                      [] k = "ncvar" -> Atom(ncvar)
                                      [] OTHER -> Atom(shape)])),
     self |-> [class |-> "NetCDFFileArray", dict |-> Len(st) + 1]]

\* CompressedArray.__init__(array, shape, compression), given a payload
\* and a compression descriptor made for it.
CompressedArrayNew(st, shape, type) ==
    [store |-> st \o <<PyList(<<Atom("10"), Atom("20")>>),
                       PyDict([k \in {type} |-> Atom("axis 0")]),
                       PyDict([k \in {"array", "compression", "shape", "ndim", "size"} |->
                                 CASE k = "array" -> Ref(Len(st) + 1)
                                   [] k = "compression" -> Ref(Len(st) + 2)
                                   [] k = "shape" -> Atom(shape)
                                   [] k = "ndim" -> Atom("1")
                                   [] OTHER -> Atom("3")])>>,
     self |-> [class |-> "CompressedArray", dict |-> Len(st) + 3]]

\* A copy that hands its own __dict__ to the new object.
FileArrayCopyAliased(st, self) == [store |-> st, self |-> self]

\* FileArray.copy, CompressedArray.copy
FileArrayCopy(st, self) ==
    [store |-> DictCopy(st, self.dict).store,
     self |-> [class |-> self.class, dict |-> DictCopy(st, self.dict).val.v]]

\* a = NetCDFFileArray(file=..., ncvar=..., shape=...)
NewFileArray ==
    /\ nops < MaxOps
    /\ Len(objs) < MaxObjs
    /\ \E file \in {<<"file.nc">>, <<"/", "data", "other.nc">>} :
          \E r \in {FileArrayNew(store, file, "tas", "(2, 3)")} :
             /\ store' = r.store
             /\ objs' = Append(objs, r.self)
    /\ lastcall' = Call("new", Len(objs) + 1, "", ValueDefault(None), Returned(None))
    /\ nops' = nops + 1
    /\ UNCHANGED hist
    /\ QuietE

\* a = CompressedArray(array, shape, compression)
NewCompressedArray ==
    /\ nops < MaxOps
    /\ Len(objs) < MaxObjs
    /\ \E type \in {"gathered", "DSG_contiguous"} :
          \E r \in {CompressedArrayNew(store, "(3,)", type)} :
             /\ store' = r.store
             /\ objs' = Append(objs, r.self)
    /\ lastcall' = Call("new", Len(objs) + 1, "", ValueDefault(None), Returned(None))
    /\ nops' = nops + 1
    /\ UNCHANGED hist
    /\ QuietE

\* b = a.copy()
CopyArray ==
    /\ nops < MaxOps
    /\ Len(objs) < MaxObjs
    /\ \E o \in DOMAIN objs :
          /\ \E r \in {FileArrayCopy(store, objs[o])} :
                /\ store' = r.store
                /\ objs' = Append(objs, r.self)
          /\ lastcall' = Call("copyarray", o, "", ValueDefault(None), Returned(None))
    /\ nops' = nops + 1
    /\ UNCHANGED hist
    /\ QuietE

\* a.attr = value
Rebind ==
    /\ nops < MaxOps
    /\ \E o \in DOMAIN objs :
          \E attr \in DOMAIN store[objs[o].dict].items, v \in {"changed", "list"} :
             \E f \in {Fresh(store, v)} :
                /\ store' = [f.store EXCEPT ![objs[o].dict].items[attr] = f.val]
                /\ lastcall' = Call("rebind", o, attr, ValueDefault(None), Returned(f.val))
    /\ nops' = nops + 1
    /\ UNCHANGED <<objs, hist>>
    /\ QuietE

NextCopy ==
    \/ NewFileArray
    \/ NewCompressedArray
    \/ CopyArray
    \/ Rebind

SpecCopy == InitContainer /\ [][NextCopy]_vars

\* C29: right after a copy the new object has a __dict__ of its own that
\* binds every attribute of the original to the very same value, the
\* payload, the compression descriptor, the shape and the file among
\* them; and binding an attribute of one object to a new value changes
\* no attribute of any other object.
C29_Shared ==
    lastcall.op = "copyarray" =>
        /\ objs[Len(objs)].dict # objs[lastcall.obj].dict
        /\ objs[Len(objs)].class = objs[lastcall.obj].class
        /\ store[objs[Len(objs)].dict].items = store[objs[lastcall.obj].dict].items

C29_Rebound ==
    Step("rebind") =>
        /\ store'[objs[lastcall'.obj].dict].items[lastcall'.key] = lastcall'.val
        /\ \A p \in DOMAIN objs \ {lastcall'.obj} :
              store'[objs[p].dict].items = store[objs[p].dict].items

-----------------------------------------------------------------------------
\* Part F. Constructs.equals (cfdm/constructs.py).
\*
\* A Constructs object is the sizes of its domain axes and its array
\* constructs, each a key, a construct type, the axes it spans and its
\* content.  The class it extends, the constructs and their copies are
\* not part of the sources at hand: a copy holds the same axes and
\* constructs under the same keys, and two constructs are equal when
\* their types, contents and shapes are.  The objects have no cell method
\* and no coordinate reference.

MaxCompares == 2   \* equals calls made

DomainAxes == {1, 2}

\* self._array_constructs
_array_constructs == {"dimension_coordinate", "auxiliary_coordinate"}

ArrayConstruct(key, type, axes, val) == [key |-> key, type |-> type, axes |-> axes, val |-> val]

\* The objects compared: two axes of two or three elements, at most one
\* dimension coordinate on each, of one of two contents, and at most one
\* auxiliary coordinate over both.
DomainSet ==
    {[sizes |-> sizes, items |-> c1 \cup c2 \cup c12] :
        sizes \in [DomainAxes -> {2, 3}],
        c1 \in {{}} \cup {{ArrayConstruct("dim0", "dimension_coordinate", <<1>>, v)} : v \in {"u", "v"}},
        c2 \in {{}} \cup {{ArrayConstruct("dim1", "dimension_coordinate", <<2>>, v)} : v \in {"u", "v"}},
        c12 \in {{}, {ArrayConstruct("aux0", "auxiliary_coordinate", <<1, 2>>, "w")}}}

\* Constructs.copy
ConstructsCopy(c) == [sizes |-> c.sizes, items |-> c.items]

\* item0.equals(item1)
ItemEquals(c0, item0, c1, item1) ==
    /\ item0.type = item1.type
    /\ item0.val = item1.val
    /\ [k \in DOMAIN item0.axes |-> c0.sizes[item0.axes[k]]]
          = [k \in DOMAIN item1.axes |-> c1.sizes[item1.axes[k]]]

\* The keys of self.axes_to_constructs(): the tuples of axes that some
\* construct spans.
AxesTuples(c) == {item.axes : item \in c.items}

\* self.axes_to_constructs()[axes][construct_type]
RoleConstructs(c, axes, type) == {item \in c.items : item.axes = axes /\ item.type = type}

\* The orders in which the keys of a dict may be met.
Orders(S) == {f \in [1..Cardinality(S) -> S] : \A i, j \in DOMAIN f : f[i] = f[j] => i = j}

\* Constructs._equals_domain_axis: sorted(self_sizes) == sorted(other_sizes)
_equals_domain_axis(c0, c1) ==
    \A n \in {c0.sizes[a] : a \in DomainAxes} \cup {c1.sizes[a] : a \in DomainAxes} :
        Cardinality({a \in DomainAxes : c0.sizes[a] = n})
            = Cardinality({a \in DomainAxes : c1.sizes[a] = n})

\* The loop over key0, item0 and key1, item1: every construct of self of
\* this type is paired with the first construct of other, not yet paired,
\* that equals it, and none of other is left.  Equality of constructs
\* being an equivalence, the pairing succeeds in whatever order exactly
\* when a pairing exists.
MatchedRole(c0, role0, c1, role1) ==
    /\ Cardinality(role0) = Cardinality(role1)
    /\ \E f \in [role0 -> role1] :
          /\ \A x, y \in role0 : f[x] = f[y] => x = y
          /\ \A x \in role0 : ItemEquals(c0, x, c1, f[x])

\* The loop over construct_type for axes0 and axes1:
\* matched_all_constructs_with_these_axes
MatchedAll(c0, axes0, c1, axes1) ==
    /\ Len(axes0) = Len(axes1)
    /\ \A type \in _array_constructs :
          MatchedRole(c0, RoleConstructs(c0, axes0, type), c1, RoleConstructs(c1, axes1, type))

\* The loop over axes_to_constructs0 met in the order todo0, with the keys
\* of axes_to_constructs1 not yet deleted in the order left1: each axes0
\* takes the first axes1 left whose constructs all match.
RECURSIVE MatchAxes(_, _, _, _, _)
MatchAxes(c0, c1, todo0, left1, map) ==
    IF todo0 = <<>> THEN [ok |-> TRUE, map |-> map]
    ELSE LET axes0 == Head(todo0)
             Fits(axes1) == MatchedAll(c0, axes0, c1, axes1)
             Other(axes1) == axes1 # SelectSeq(left1, Fits)[1]
         IN  IF SelectSeq(left1, Fits) = <<>> THEN [ok |-> FALSE, map |-> map]
             ELSE MatchAxes(c0, c1, Tail(todo0), SelectSeq(left1, Other),
                            Append(map, <<axes0, SelectSeq(left1, Fits)[1]>>))

\* zip(axes0, axes1) for the pairs of axes0_to_axes1 met in the order
\* given.
RECURSIVE AxisPairs(_, _)
AxisPairs(map, order) ==
    IF order = <<>> THEN <<>>
    ELSE [k \in 1..Len(map[Head(order)][1]) |->
            <<map[Head(order)][1][k], map[Head(order)][2][k]>>]
         \o AxisPairs(map, Tail(order))

\* The loop that maps the axes of self to the axes of other: FALSE when an
\* axis is mapped to two axes ("Ambiguous axis mapping").
RECURSIVE MapAxes(_, _, _)
MapAxes(pairs, axis0_to_axis1, axis1_to_axis0) ==
    IF pairs = <<>> THEN TRUE
    ELSE LET axis0 == Head(pairs)[1]
             axis1 == Head(pairs)[2]
         IN  IF axis0 \in DOMAIN axis0_to_axis1 /\ axis1 # axis0_to_axis1[axis0] THEN FALSE
             ELSE IF axis1 \in DOMAIN axis1_to_axis0 /\ axis0 # axis1_to_axis0[axis1] THEN FALSE
             ELSE MapAxes(Tail(pairs),
                          [a \in DOMAIN axis0_to_axis1 \cup {axis0} |->
                              IF a = axis0 THEN axis1 ELSE axis0_to_axis1[a]],
                          [a \in DOMAIN axis1_to_axis0 \cup {axis1} |->
                              IF a = axis1 THEN axis0 ELSE axis1_to_axis0[a]])

\* The end of equals, given the outcome m of the matching of the axes and
\* the order in which axes0_to_axes1 is met.
EqualsMapped(m, order2) ==
    IF ~m.ok THEN FALSE
    ELSE MapAxes(AxisPairs(m.map, order2), <<>>, <<>>)

\* Constructs.equals(other), self and other being the same object or not,
\* with the orders in which the three dicts are met.
equals(c0, c1, same, order0, order1, order2) ==
    IF same THEN TRUE
    ELSE IF ~_equals_domain_axis(c0, c1) THEN FALSE
    ELSE EqualsMapped(MatchAxes(c0, c1, order0, order1, <<>>), order2)

InitDomain ==
    /\ heap = <<>>
    /\ IdleA
    /\ IdleB
    /\ IdleC
    /\ IdleD
    /\ IdleE
    /\ \E d \in DomainSet : dom = <<d>>
    /\ cmp = <<>>

QuietF ==
    /\ UNCHANGED heap
    /\ UNCHANGED varsA
    /\ UNCHANGED varsB
    /\ UNCHANGED varsC
    /\ UNCHANGED varsD
    /\ UNCHANGED varsE

\* e = d.copy()
CopyDomain ==
    /\ Len(dom) = 1
    /\ dom' = Append(dom, ConstructsCopy(dom[1]))
    /\ UNCHANGED cmp
    /\ QuietF

\* x.equals(y) for x and y among d and e
EqualsDomain ==
    /\ Len(cmp) < MaxCompares
    /\ \E x, y \in DOMAIN dom :
          \E order0 \in Orders(AxesTuples(dom[x])), order1 \in Orders(AxesTuples(dom[y])) :
             \E order2 \in Orders(1..Len(order0)) :
                cmp' = Append(cmp, [self |-> x, other |-> y,
                                    result |-> equals(dom[x], dom[y], x = y,
                                                      order0, order1, order2)])
    /\ UNCHANGED dom
    /\ QuietF

NextDomain == CopyDomain \/ EqualsDomain

SpecDomain == InitDomain /\ [][NextDomain]_vars

\* C25: every comparison of an object with itself, of an object with its
\* copy and of the copy with the object is true, and a comparison changes
\* neither object.
C25_AllEqual == \A i \in DOMAIN cmp : cmp[i].result

C25_Unchanged == (cmp' # cmp) => (dom' = dom)

=============================================================================
